---- MODULE Spec2Model ----
(***************************************************************************)
(* gerber2blend: stack-up parsing, per-layer thickness schedule, hole      *)
(* cutting with plated/bare edge vertex sets, face classification, the     *)
(* pipeline of stages around Board.execute, the via filter of the PTH      *)
(* Gerber, the merge of configuration files and the colour settings.       *)
(*                                                                         *)
(* Lengths are integers in one fixed unit; quotients are exact rationals   *)
(* <<numerator, denominator>> in lowest terms.  Layer names are sequences  *)
(* of their tokens ("F.Cu" is <<"F", "Cu">>, "dielectric 1 (1/2)" is       *)
(* <<"dielectric", "1", "(1/2)">>, "In1.Cu" is <<"In", "1", "Cu">>).       *)
(***************************************************************************)
EXTENDS Integers, Sequences, FiniteSets, TLC

VARIABLES
    pc,                     \* position of the run
    STACKUP,                \* config.blendcfg["EFFECTS"]["STACKUP"]
    DEFAULT_BRD_THICKNESS,  \* config.blendcfg["SETTINGS"]["DEFAULT_BRD_THICKNESS"]
    file_exists,            \* fab/stackup.json is present
    json_layers,            \* stackup_json_data["layers"], as far as the loop has read it
    stackup_data,           \* _parse_stackup_from_file: the list being built
    previous_entry,         \* index into stackup_data of the dict previous_entry refers to (0: the initial dummy)
    calculated_thickness,   \* _parse_stackup_from_file: running sum
    info,                   \* the StackupInfo stk.get() returns (thickness, stackup_data)
    in_list,                \* generate_all_layers_list: inner layer PNGs found
    all_list,               \* generate_all_layers_list: returned list of PNG names
    all_layer_thickness,    \* generate_all_layers_list: returned thickness list
    error,                  \* the exception that ended the run, "" if none
    pcb_verts,              \* pcb.data.vertices: the coordinates of the board mesh, in index order
    npth, pth,              \* whether prepare_mesh returned an object for NPTH-drl / PTH-drl
    bare_pcb_verts,         \* make_board: bare_pcb_verts
    all_pcb_verts,          \* make_board: all_pcb_verts
    plated_pcb_verts,       \* make_board: plated_pcb_verts
    outline_verts,          \* history: the mesh vertices before any cut
    cut_log,                \* history: the cuts made so far, each with the mesh it left
    bare_cut_count,         \* history: how many cuts had been made when bare_pcb_verts was taken
    faces,                  \* obj.data.polygons: each face's normal z (in tenths) and vertex indices
    select,                 \* bm.faces[i].select
    pos, edge_verts,        \* face_sel: the arguments of the last call
    hit,                    \* history: the faces the last face_sel call set select = True on
    new_objs,               \* make_board: the duplicates PCB_layer2, PCB_layer3, ... made so far
    z_counter,              \* make_board: z_counter
    board_created,          \* config.board_created
    error_args,             \* the numbers the error message carries
    cache,                  \* functools.cache of _parse_stackup_from_file, for the one path of the run
    file_reads,             \* history: how often fab/stackup.json was opened
    gets,                   \* history: the StackupInfo each stk.get() call returned, in call order
    STAGES,                 \* config.blendcfg["STAGES"]: the stage names, in order
    modules,                \* create_modules: runnable_modules
    executed,               \* history: the stages whose execute() was called, in call order
    exit_status,            \* the status the process exited with, -1 while it runs
    blend_exists,           \* path.isfile(config.pcb_blend_path) when Board.execute looks
    regenerate,             \* config.args.regenerate
    saves,                  \* history: the stages that called save_pcb_blend, in call order
    made,                   \* history: make_board was called
    pth_gbr_exists,         \* do_remove_via_holes: the working copy of the PTH Gerber exists
    statements,             \* pth_gbr_file.statements, as far as the loop has read them
    new_objects,            \* do_remove_via_holes: new_objects
    apertures_to_remove,    \* do_remove_via_holes: apertures_to_remove
    entered_apertures_to_remove,  \* do_remove_via_holes: the flag of the same name
    template_cfg,           \* templates/blendcfg.yaml, loaded
    project_cfg,            \* the blendcfg.yaml of the project directory, loaded
    project_exists,         \* the project directory has a blendcfg.yaml
    local_before,           \* history: project_cfg before handle_config wrote the file
    handled,                \* history: what the last handle_config call did (none, copy, merge, overwrite)
    SILKSCREEN,             \* blendcfg["SETTINGS"]["SILKSCREEN"]
    SOLDERMASK,             \* blendcfg["SETTINGS"]["SOLDERMASK"]
    mask_colors,            \* set_soldermask_color: the masked and unmasked colour values set
    silk_color              \* set_silkscreen_color: the colour value set

stkVars == <<STACKUP, DEFAULT_BRD_THICKNESS, file_exists, json_layers, stackup_data,
             previous_entry, calculated_thickness, info, in_list, all_list,
             all_layer_thickness, error>>

brdVars == <<pcb_verts, npth, pth, bare_pcb_verts, all_pcb_verts, plated_pcb_verts,
             outline_verts, cut_log, bare_cut_count>>

selVars == <<faces, select, pos, edge_verts, hit>>

lyrVars == <<new_objs, z_counter, board_created, error_args>>

getVars == <<cache, file_reads, gets>>

runVars == <<STAGES, modules, executed, exit_status, blend_exists, regenerate, saves, made>>

viaVars == <<pth_gbr_exists, statements, new_objects, apertures_to_remove,
             entered_apertures_to_remove>>

cfgVars == <<template_cfg, project_cfg, project_exists, local_before, handled>>

colVars == <<SILKSCREEN, SOLDERMASK, mask_colors, silk_color>>

auxVars == <<viaVars, cfgVars, colVars>>

extVars == <<getVars, runVars, auxVars>>

vars == <<pc, stkVars, brdVars, selVars, lyrVars, extVars>>

-----------------------------------------------------------------------------
(* Bounds *)

MaxLayers == 4
MaxInner == 2
MaxOutline == 2
MaxNew == 1
MaxFaces == 2
MaxStatements == 4

-----------------------------------------------------------------------------
(* Exact arithmetic *)

RECURSIVE Gcd(_, _)
Gcd(a, b) == IF b = 0 THEN a ELSE Gcd(b, a % b)

Abs(x) == IF x < 0 THEN -x ELSE x

\* n/d in lowest terms, d > 0
Rat(n, d) ==
    LET g == Gcd(Abs(n), d)
    IN  IF n = 0 THEN <<0, 1>> ELSE <<n \div g, d \div g>>

RatAdd(p, q) == Rat(p[1] * q[2] + q[1] * p[2], p[2] * q[2])

RECURSIVE RatSum(_)
RatSum(s) == IF s = <<>> THEN <<0, 1>> ELSE RatAdd(s[1], RatSum(Tail(s)))

RECURSIVE Sum(_)
Sum(s) == IF s = <<>> THEN 0 ELSE s[1] + Sum(Tail(s))

RECURSIVE SelectSeqBy(_, _)
SelectSeqBy(s, keep) ==
    IF s = <<>> THEN <<>>
    ELSE (IF 1 \in keep THEN <<s[1]>> ELSE <<>>)
         \o SelectSeqBy(Tail(s), {i - 1 : i \in keep \ {1}})

\* the order kept
SameOrder(s) == s

Reverse(s) == [i \in 1..Len(s) |-> s[Len(s) + 1 - i]]

-----------------------------------------------------------------------------
(* JSON values and layer names *)

Float(v) == [ty |-> "float", v |-> v]
IntNum(v) == [ty |-> "int", v |-> v]
Null == [ty |-> "null", v |-> 0]

\* Python truthiness of a JSON thickness: None and zero are falsy
Truthy(t) == t.ty # "null" /\ t.v # 0

\* Python a + b on JSON numbers (undefined on None: TypeError)
AddDefined(a, b) == a.ty # "null" /\ b.ty # "null"
\* the thickness of a merged entry with = in place of +=
Add_Overwrite(a, b) == b

Add(a, b) == [ty |-> IF a.ty = "float" \/ b.ty = "float" THEN "float" ELSE "int",
              v  |-> a.v + b.v]

Digits == {"1", "2", "3"}
Parts == {"(1/2)", "(2/2)"}

\* pattern.match(name) for pattern = ^(dielectric \d+) \(\d+/\d+\)$
PatternMatch(name) ==
    /\ Len(name) = 3
    /\ name[1] = "dielectric"
    /\ name[2] \in Digits
    /\ name[3] \in Parts

\* match.group(1): the "dielectric <N>" prefix
Group1(name) == SubSeq(name, 1, 2)

\* token in name
Contains(name, tok) == \E i \in 1..Len(name) : name[i] = tok

\* name.startswith("F."), name.startswith("B."), name.endswith(".Cu")
StartsWith(name, tok) == Len(name) >= 2 /\ name[1] = tok
EndsWithCu(name) == Len(name) >= 2 /\ name[Len(name)] = "Cu"
\* ".Cu" in name
ContainsCu(name) == \E i \in 2..Len(name) : name[i] = "Cu"

JsonLayer(name, thickness) ==
    [name |-> name, thickness |-> thickness, user_name |-> name]

\* The layer records a stackup.json may hold
JsonLayers ==
    { JsonLayer(<<"F", "SilkS">>, Null),
      JsonLayer(<<"F", "Mask">>, Float(1)),
      JsonLayer(<<"F", "Cu">>, Float(3)),
      JsonLayer(<<"dielectric", "1", "(1/2)">>, Float(5)),
      JsonLayer(<<"dielectric", "1", "(2/2)">>, Float(7)),
      JsonLayer(<<"dielectric", "1", "(2/2)">>, Null),
      JsonLayer(<<"dielectric", "2", "(1/2)">>, Float(4)),
      JsonLayer(<<"dielectric", "1">>, Float(10)),
      JsonLayer(<<"In", "1", "Cu">>, Float(3)),
      JsonLayer(<<"B", "Cu">>, Float(3)),
      JsonLayer(<<"B", "Mask">>, Float(1)),
      JsonLayer(<<"B", "Mask">>, IntNum(1)) }

DefaultThicknesses == {12, 16}

-----------------------------------------------------------------------------
(* stackup.py *)

\* previous_entry["name"]; the initial dummy entry has the empty name
PreviousName ==
    IF previous_entry = 0 THEN <<>> ELSE stackup_data[previous_entry].name

\* lines 91-94: the entry previous_entry refers to gets its partial name and
\* user-name rewritten to match.group(1)
Normalized(data, idx) ==
    IF idx = 0 THEN data
    ELSE [data EXCEPT
            ![idx].name = IF PatternMatch(@) THEN Group1(@) ELSE @,
            ![idx].user_name = IF PatternMatch(@) THEN Group1(@) ELSE @]

\* a merge condition that looks at the word "dielectric" only, not at the
\* part suffix
MergeCondition_AnyDielectric(new_name, previous_name) ==
    Contains(new_name, "dielectric") /\ Contains(previous_name, "dielectric")

\* the condition of line 87
MergeCondition(new_name, previous_name) ==
    PatternMatch(new_name) /\ PatternMatch(previous_name)

\* the file opened whenever stack-up generation is enabled
FileIsRead_WhenEnabled(enabled, exists) == enabled

\* lines 48 and 75: the file is opened when stack-up generation is enabled and
\* the file exists
FileIsRead(enabled, exists) == enabled /\ exists

\* a StackupInfo of thickness zero
DefaultInfo_Zero(thickness) == [thickness |-> 0, stackup_data |-> <<>>]

\* lines 50-52 and 71-77: the configured thickness and no stack-up data
DefaultInfo(thickness) == [thickness |-> thickness, stackup_data |-> <<>>]

\* functools.cache holds no result for the path yet
NoCache == [set |-> FALSE, thickness |-> 0, stackup_data |-> <<>>]

\* functools.cache after _parse_stackup_from_file returned for the path
Cached(thickness, data) == [set |-> TRUE, thickness |-> thickness, stackup_data |-> data]

\* a stk.get() that builds the default StackupInfo whatever the cache holds
StackupGet_Default(enabled, c, default) == DefaultInfo(default)

\* stk.get() once the parse has returned for the path: lines 48-57 with the
\* cached return value of line 49, or the configured default of lines 51-52
StackupGet(enabled, c, default) ==
    IF enabled THEN [thickness |-> c.thickness, stackup_data |-> c.stackup_data]
    ELSE DefaultInfo(default)

\* how often one stk.get() call opens the file: the body of
\* _parse_stackup_from_file runs only when the cache has no result for the path
Opens(enabled, exists, c) ==
    IF FileIsRead(enabled, exists) /\ ~c.set THEN 1 ELSE 0

\* the first stk.get() of the run -> _load_stackup_from_file, up to the open
\* of the file
LoadStackupFromFile ==
    /\ pc = "start"
    /\ file_reads' = file_reads + Opens(STACKUP, file_exists, cache)
    /\ IF FileIsRead(STACKUP, file_exists)
       THEN /\ pc' = "parse"
            /\ calculated_thickness' = 0
            /\ UNCHANGED <<info, cache, gets>>
       ELSE \* stack-up disabled (lines 50-52), or the file is missing (lines 75-77)
            /\ pc' = "loaded"
            /\ info' = DefaultInfo(DEFAULT_BRD_THICKNESS)
            /\ cache' = IF STACKUP THEN Cached(DEFAULT_BRD_THICKNESS, <<>>) ELSE cache
            /\ gets' = Append(gets, info')
            /\ UNCHANGED calculated_thickness
    /\ UNCHANGED <<STACKUP, DEFAULT_BRD_THICKNESS, file_exists, json_layers, stackup_data,
                   previous_entry, in_list, all_list, all_layer_thickness, error, brdVars,
                   selVars, lyrVars, runVars, auxVars>>

\* one iteration of the loop over stackup_json_data["layers"]
ParseLayer(layer) ==
    /\ pc = "parse"
    /\ Len(json_layers) < MaxLayers
    /\ json_layers' = Append(json_layers, layer)
    /\ calculated_thickness' =
         IF Truthy(layer.thickness) THEN calculated_thickness + layer.thickness.v
         ELSE calculated_thickness
    /\ IF MergeCondition(layer.name, PreviousName)
       THEN IF AddDefined(stackup_data[previous_entry].thickness, layer.thickness)
            THEN /\ stackup_data' =
                      [stackup_data EXCEPT ![previous_entry].thickness = Add(@, layer.thickness)]
                 /\ UNCHANGED <<pc, previous_entry, error>>
            ELSE \* TypeError, re-raised as RuntimeError (lines 99-101)
                 /\ pc' = "failed"
                 /\ error' = "RuntimeError: Could not read stackup.json"
                 /\ UNCHANGED <<stackup_data, previous_entry>>
       ELSE /\ stackup_data' = Append(Normalized(stackup_data, previous_entry), layer)
            /\ previous_entry' = Len(stackup_data) + 1
            /\ UNCHANGED <<pc, error>>
    /\ UNCHANGED <<STACKUP, DEFAULT_BRD_THICKNESS, file_exists, info, in_list, all_list,
                   all_layer_thickness, brdVars, selVars, lyrVars, extVars>>

\* the loop is over: return calculated_thickness, stackup_data (cached by functools.cache)
ParseEnd ==
    /\ pc = "parse"
    /\ pc' = "loaded"
    /\ cache' = Cached(calculated_thickness, stackup_data)
    /\ info' = [thickness |-> calculated_thickness, stackup_data |-> stackup_data]
    /\ gets' = Append(gets, info')
    /\ UNCHANGED <<STACKUP, DEFAULT_BRD_THICKNESS, file_exists, json_layers, stackup_data,
                   previous_entry, calculated_thickness, in_list, all_list,
                   all_layer_thickness, error, brdVars, selVars, lyrVars, file_reads,
                   runVars, auxVars>>

-----------------------------------------------------------------------------
(* board.py: generate_all_layers_list *)

PngNames == <<"In1.png", "In2.png", "In3.png", "In4.png">>

\* lines 273-282: the In<k>.png files of png_path, highest number first
InList(n) == [i \in 1..n |-> PngNames[n + 1 - i]]

\* line 290
AllList(inl) == <<"B_Cu.png">> \o inl \o <<"F_Cu.png">>

\* the layer count without the base board layer
LayerCount_NoBase(al) == Len(al)

\* line 292
LayerCount(al) == Len(al) + 1

\* line 295: [thickness / layer_count] * layer_count
EvenSplit(thickness, layer_count) == [i \in 1..layer_count |-> Rat(thickness, layer_count)]

\* the names of the dielectric entries in place of the inner-layer ones
StkInList_Dielectric(stk_data) ==
    LET sel == SelectSeqBy(stk_data,
                   {i \in 1..Len(stk_data) : Contains(stk_data[i].name, "dielectric")})
    IN  [i \in 1..Len(sel) |-> sel[i].name]

\* line 299
StkInList(stk_data) ==
    LET sel == SelectSeqBy(stk_data,
                   {i \in 1..Len(stk_data) : Contains(stk_data[i].name, "In")})
    IN  [i \in 1..Len(sel) |-> sel[i].name]

\* line 305
InLayerThickness(stk_data) ==
    LET sel == SelectSeqBy(stk_data,
                   {i \in 1..Len(stk_data) : Contains(stk_data[i].name, "dielectric")})
    IN  [i \in 1..Len(sel) |-> sel[i].thickness]

\* line 306
CuLayerThickness(stk_data) ==
    LET sel == SelectSeqBy(stk_data,
                   {i \in 1..Len(stk_data) : ContainsCu(stk_data[i].name)})
    IN  [i \in 1..Len(sel) |-> sel[i].thickness]

\* lines 309-330: the sum over the float thicknesses of the non-copper entries of a side
SideThickness(stk_data, side) ==
    LET sel == SelectSeqBy(stk_data,
                   {i \in 1..Len(stk_data) :
                        /\ stk_data[i].thickness.ty = "float"
                        /\ StartsWith(stk_data[i].name, side)
                        /\ ~EndsWithCu(stk_data[i].name)})
    IN  Sum([i \in 1..Len(sel) |-> sel[i].thickness.v])

FrontThickness(stk_data) == SideThickness(stk_data, "F")
BackThickness(stk_data) == SideThickness(stk_data, "B")

AnyNull(ts) == \E i \in 1..Len(ts) : ts[i].ty = "null"

\* lines 305-334, for thicknesses on which Python's sum and += are defined
StackupThickness(stk_data, layer_count) ==
    LET sum_cu == Sum([i \in 1..Len(CuLayerThickness(stk_data)) |->
                          CuLayerThickness(stk_data)[i].v])
        in_layer_thickness == Reverse(InLayerThickness(stk_data))
        sandwich == <<BackThickness(stk_data)>>
                    \o [i \in 1..Len(in_layer_thickness) |-> in_layer_thickness[i].v]
                    \o <<FrontThickness(stk_data)>>
    IN  [i \in 1..Len(sandwich) |-> RatAdd(Rat(sandwich[i], 1), Rat(sum_cu, layer_count))]

GenerateAllLayersList(n) ==
    /\ pc = "loaded"
    /\ in_list = <<>> /\ all_list = <<>> /\ all_layer_thickness = <<>>
    /\ LET inl == InList(n)
           al == AllList(inl)
           \* stk.get() at lines 266, 291 and 295
           got == StackupGet(STACKUP, cache, DEFAULT_BRD_THICKNESS)
           stk_data == got.stackup_data
       IN  /\ file_reads' = file_reads + Opens(STACKUP, file_exists, cache)
           /\ gets' = gets \o (IF ~STACKUP THEN <<got>>
                               ELSE IF stk_data = <<>> THEN <<got, got, got>>
                               ELSE <<got, got>>)
           /\ IF ~STACKUP
              THEN \* lines 269-270
                   /\ pc' = "layers"
                   /\ all_layer_thickness' = <<Rat(got.thickness, 1)>>
                   /\ UNCHANGED <<in_list, all_list, error, error_args>>
              ELSE IF stk_data = <<>>
              THEN /\ pc' = "layers"
                   /\ in_list' = inl
                   /\ all_list' = al
                   /\ all_layer_thickness' = EvenSplit(got.thickness, LayerCount(al))
                   /\ UNCHANGED <<error, error_args>>
              ELSE IF Len(inl) # Len(StkInList(stk_data))
              THEN \* lines 300-304
                   /\ pc' = "failed"
                   /\ in_list' = inl
                   /\ error' = "RuntimeError: Stackup layer mismatch"
                   /\ error_args' = <<Len(inl), Len(StkInList(stk_data))>>
                   /\ UNCHANGED <<all_list, all_layer_thickness>>
              ELSE IF AnyNull(CuLayerThickness(stk_data)) \/ AnyNull(InLayerThickness(stk_data))
              THEN \* sum() (line 307) or += (line 334) on None
                   /\ pc' = "failed"
                   /\ in_list' = inl
                   /\ error' = "TypeError"
                   /\ UNCHANGED <<all_list, all_layer_thickness, error_args>>
              ELSE /\ pc' = "layers"
                   /\ in_list' = inl
                   /\ all_list' = al
                   /\ all_layer_thickness' = StackupThickness(stk_data, LayerCount(al))
                   /\ UNCHANGED <<error, error_args>>
    /\ UNCHANGED <<STACKUP, DEFAULT_BRD_THICKNESS, file_exists, json_layers, stackup_data,
                   previous_entry, calculated_thickness, info, brdVars, selVars,
                   new_objs, z_counter, board_created, cache, runVars, auxVars>>

-----------------------------------------------------------------------------
(* The stack-up and layer schedule run *)

\* no board mesh exists yet
NoBoard ==
    /\ pcb_verts = <<>>
    /\ npth = FALSE /\ pth = FALSE
    /\ bare_pcb_verts = <<>>
    /\ all_pcb_verts = <<>>
    /\ plated_pcb_verts = <<>>
    /\ outline_verts = <<>>
    /\ cut_log = <<>>
    /\ bare_cut_count = -1

\* no layer was stacked, nothing was saved, no error raised
NoLayers ==
    /\ new_objs = <<>>
    /\ z_counter = <<0, 1>>
    /\ board_created = FALSE
    /\ error_args = <<>>

\* no pipeline is being run: no stage list, nothing executed or saved
NoRun ==
    /\ STAGES = <<>>
    /\ modules = <<>>
    /\ executed = <<>>
    /\ exit_status = -1
    /\ blend_exists = FALSE
    /\ regenerate = FALSE
    /\ saves = <<>>
    /\ made = FALSE

\* an empty YAML mapping
EmptyCfg == [key \in {} |-> 0]

\* no Gerber is being filtered, no configuration merged, no colour set
NoAux ==
    /\ pth_gbr_exists = FALSE
    /\ statements = <<>>
    /\ new_objects = <<>>
    /\ apertures_to_remove = <<>>
    /\ entered_apertures_to_remove = FALSE
    /\ template_cfg = EmptyCfg
    /\ project_cfg = EmptyCfg
    /\ project_exists = FALSE
    /\ local_before = EmptyCfg
    /\ handled = "none"
    /\ SILKSCREEN = <<>>
    /\ SOLDERMASK = <<>>
    /\ mask_colors = <<>>
    /\ silk_color = <<>>

\* the edge_verts = None default of face_sel
None == [given |-> FALSE, verts |-> <<>>]

\* no face_sel call was made yet, on a mesh without faces
NoFaceSel ==
    /\ faces = <<>>
    /\ select = <<>>
    /\ pos = "none"
    /\ edge_verts = None
    /\ hit = {}

Init ==
    /\ pc = "start"
    /\ NoBoard
    /\ NoFaceSel
    /\ NoLayers
    /\ NoRun
    /\ NoAux
    /\ cache = NoCache
    /\ file_reads = 0
    /\ gets = <<>>
    /\ STACKUP \in BOOLEAN
    /\ DEFAULT_BRD_THICKNESS \in DefaultThicknesses
    /\ file_exists \in BOOLEAN
    /\ json_layers = <<>>
    /\ stackup_data = <<>>
    /\ previous_entry = 0
    /\ calculated_thickness = 0
    /\ info = [thickness |-> 0, stackup_data |-> <<>>]
    /\ in_list = <<>>
    /\ all_list = <<>>
    /\ all_layer_thickness = <<>>
    /\ error = ""

Next ==
    \/ LoadStackupFromFile
    \/ \E layer \in JsonLayers : ParseLayer(layer)
    \/ ParseEnd
    \/ \E n \in 0..MaxInner : GenerateAllLayersList(n)

Spec == Init /\ [][Next]_vars

-----------------------------------------------------------------------------
(* Claims on the stack-up parser and the thickness schedule *)

\* the stack-up branch of generate_all_layers_list returned a schedule
NoStackupData == pc = "layers" /\ STACKUP /\ info.stackup_data = <<>>

AllEqual(ts, q) == \A i \in 1..Len(ts) : ts[i] = q

\* C1 (as claimed): with stack-up generation enabled and no stack-up data, the
\* thickness list has N+2 entries, each T/(N+2), for the configured board
\* thickness T and N inner-layer images.
C1_EvenSplitOverNPlus2 ==
    NoStackupData =>
        /\ Len(all_layer_thickness) = Len(in_list) + 2
        /\ AllEqual(all_layer_thickness, Rat(DEFAULT_BRD_THICKNESS, Len(in_list) + 2))

\* C1 (amended): with stack-up generation enabled and no stack-up data, the
\* thickness list has N+3 entries (one more than the N+2 layer images), every
\* entry is StackupInfo.thickness/(N+3) and the entries sum to
\* StackupInfo.thickness, which is the configured board thickness when
\* stackup.json is missing and 0 when the file holds an empty layer list.
C1_EvenSplitOverNPlus3 ==
    NoStackupData =>
        /\ Len(all_list) = Len(in_list) + 2
        /\ Len(all_layer_thickness) = Len(in_list) + 3
        /\ AllEqual(all_layer_thickness, Rat(info.thickness, Len(in_list) + 3))
        /\ RatSum(all_layer_thickness) = Rat(info.thickness, 1)
        /\ info.thickness = IF file_exists THEN 0 ELSE DEFAULT_BRD_THICKNESS

\* C1 witness: thickness 16, two inner layers, no stackup.json: five layers of 16/5
C1_Witness ==
    /\ NoStackupData
    /\ ~file_exists
    /\ DEFAULT_BRD_THICKNESS = 16
    /\ Len(in_list) = 2
    /\ all_layer_thickness = <<<<16, 5>>, <<16, 5>>, <<16, 5>>, <<16, 5>>, <<16, 5>>>>

\* generate_all_layers_list returned a schedule computed from stack-up data
FromStackupData == pc = "layers" /\ STACKUP /\ info.stackup_data # <<>>

NonNull(layers) == \A i \in 1..Len(layers) : layers[i].thickness.ty # "null"

IsCopper(entry) == ContainsCu(entry.name)
IsDielectric(entry) == Contains(entry.name, "dielectric")
IsSideFloat(entry) ==
    /\ StartsWith(entry.name, "F") \/ StartsWith(entry.name, "B")
    /\ ~EndsWithCu(entry.name)
    /\ entry.thickness.ty = "float"

CountedOnce(entry) ==
    \/ IsCopper(entry) /\ ~IsDielectric(entry) /\ ~IsSideFloat(entry)
    \/ ~IsCopper(entry) /\ IsDielectric(entry) /\ ~IsSideFloat(entry)
    \/ ~IsCopper(entry) /\ ~IsDielectric(entry) /\ IsSideFloat(entry)

WellFormedStackup ==
    /\ FromStackupData
    /\ NonNull(json_layers)
    /\ \A i \in 1..Len(info.stackup_data) : CountedOnce(info.stackup_data[i])
    /\ Cardinality({i \in 1..Len(info.stackup_data) : IsDielectric(info.stackup_data[i])})
         = Len(in_list) + 1

Parsed == pc = "loaded" /\ STACKUP /\ file_exists

DielectricPart(layers, i) == PatternMatch(layers[i].name)

\* layer i continues the run of parts of one dielectric that layer i-1 belongs to
ContinuesRun(layers, i) ==
    /\ i > 1
    /\ DielectricPart(layers, i) /\ DielectricPart(layers, i - 1)
    /\ Group1(layers[i].name) = Group1(layers[i - 1].name)

RunStarts(layers) == {i \in 1..Len(layers) : ~ContinuesRun(layers, i)}

\* the layers of the maximal run that starts at i
RunOf(layers, i) ==
    {j \in i..Len(layers) : \A k \in (i + 1)..j : ContinuesRun(layers, k)}

RECURSIVE SetSum(_, _)
SetSum(layers, S) ==
    IF S = {} THEN 0
    ELSE LET j == CHOOSE x \in S : TRUE
         IN  layers[j].thickness.v + SetSum(layers, S \ {j})

\* the k-th smallest element of a set of numbers
RECURSIVE Nth(_, _)
Nth(S, k) ==
    LET m == CHOOSE x \in S : \A y \in S : x <= y
    IN  IF k = 1 THEN m ELSE Nth(S \ {m}, k - 1)

\* C3 (as claimed): every maximal run of consecutive parts "dielectric N (i/k)"
\* of one N gives exactly one parsed entry, at the place of the run's first
\* part, whose thickness is the sum over the run; every other entry is
\* unchanged and in its original order.
C3_RunsOfOneDielectricMerged ==
    Parsed =>
        /\ Len(info.stackup_data) = Cardinality(RunStarts(json_layers))
        /\ \A k \in 1..Len(info.stackup_data) :
              k <= Cardinality(RunStarts(json_layers)) =>
                LET i == Nth(RunStarts(json_layers), k)
                IN  /\ info.stackup_data[k].thickness.v
                         = SetSum(json_layers, RunOf(json_layers, i))
                    /\ ~DielectricPart(json_layers, i) => info.stackup_data[k] = json_layers[i]

\* C4 (as claimed): a loop iteration accumulates the entry read into the
\* preceding emitted entry only if both are parts of the same dielectric N;
\* parts of different dielectrics are emitted separately.
C4_AccumulateOnlySameDielectric ==
    [][(/\ pc = "parse" /\ pc' = "parse"
        /\ Len(json_layers') = Len(json_layers) + 1
        /\ Len(stackup_data') = Len(stackup_data))
       => /\ PatternMatch(PreviousName)
          /\ PatternMatch(json_layers'[Len(json_layers')].name)
          /\ Group1(PreviousName) = Group1(json_layers'[Len(json_layers')].name)]_vars

\* C5 (as claimed): no entry of the layer list the parser returns is still named
\* "dielectric N (i/k)", also when the parts are the last layers of the file.
C5_NoPartialNameReturned ==
    Parsed => \A i \in 1..Len(info.stackup_data) : ~PatternMatch(info.stackup_data[i].name)

-----------------------------------------------------------------------------
(* custom_utilities.py: vertex lists and the K-D tree                       *)
(* A coordinate is an integer number of thirds of 1e-4, so that rounding to *)
(* 4 decimals and the 1e-4 tolerance are both exact.                        *)

\* 10^-4 (get_vertices precision 4)
Grid == 3

\* 0.0001 (the distance under which two points are in the same place)
Tolerance == 3

\* round(c, 4)
Round4(c) == Grid * ((2 * c + Grid) \div (2 * Grid))

\* get_vertices(mesh, 4)
GetVertices(mesh) ==
    [i \in 1..Len(mesh) |-> <<Round4(mesh[i][1]), Round4(mesh[i][2]), Round4(mesh[i][3])>>]

\* make_kd_tree: the points, each inserted under its list index
MakeKdTree(verts) == verts

\* squared distance of two points
Dist2(a, b) ==
    (a[1] - b[1]) * (a[1] - b[1]) + (a[2] - b[2]) * (a[2] - b[2])
      + (a[3] - b[3]) * (a[3] - b[3])

\* the indices kd.find(vert) may return: the points of the tree nearest to vert
NearestIndices(kd, vert) ==
    {i \in 1..Len(kd) : \A j \in 1..Len(kd) : Dist2(kd[i], vert) <= Dist2(kd[j], vert)}

\* kd.find(vert)[1]: which of several equidistant points is found is up to the
\* tree (tb), the same for equal queries on one tree
FindIndex(kd, vert, tb) ==
    LET near == NearestIndices(kd, vert)
    IN  IF tb = "low" THEN CHOOSE i \in near : \A j \in near : i <= j
        ELSE CHOOSE i \in near : \A j \in near : i >= j

\* kd.find(vert)[2], squared
FindDist2(kd, vert) == Dist2(kd[CHOOSE i \in NearestIndices(kd, vert) : TRUE], vert)

TieBreaks == {"low", "high"}

\* a nearest point found however far away
SamePlace_AnyDistance(d2) == TRUE

\* dist < 0.0001
SamePlace(d2) == d2 < Tolerance * Tolerance

\* every index within 1e-4 of a remove vertex marked, not only the one found
IndexesToRemove_AllCoincident(kd, remove_set, tb, indexes_to_remove) ==
    {i \in 1..Len(kd) : \E j \in 1..Len(remove_set) : SamePlace(Dist2(kd[i], remove_set[j]))}

\* get_verts_difference, lines 40-44
RECURSIVE IndexesToRemove(_, _, _, _)
IndexesToRemove(kd, remove_set, tb, indexes_to_remove) ==
    IF remove_set = <<>> THEN indexes_to_remove
    ELSE LET vert == Head(remove_set)
             index == FindIndex(kd, vert, tb)
         IN  IndexesToRemove(kd, Tail(remove_set), tb,
                 IF SamePlace(FindDist2(kd, vert)) /\ index \notin indexes_to_remove
                 THEN indexes_to_remove \cup {index}
                 ELSE indexes_to_remove)

\* kd.find on an empty tree returns (None, None, None), and None < 0.0001 raises
GetVertsDifferenceDefined(main_set, remove_set) == remove_set = <<>> \/ main_set # <<>>

\* get_verts_difference(main_set, remove_set)
GetVertsDifference(main_set, remove_set, tb) ==
    SelectSeqBy(main_set,
        (1..Len(main_set)) \ IndexesToRemove(MakeKdTree(main_set), remove_set, tb, {}))

-----------------------------------------------------------------------------
(* board.py: make_board, lines 171-186 *)

\* the outline mesh prepare_mesh and clean_outline leave: flat, no two
\* vertices within the remove_doubles threshold
OutlineVerts(n) == [i \in 1..n |-> <<300 * i, 0, 0>>]

\* vertices the boolean modifier may create: away from the outline vertices,
\* off the rounding grid near an outline vertex, and off the board plane
\* (artifacts)
CutPoints == {<<450, 0, 0>>, <<301, 0, 0>>, <<450, 0, -300>>}

NewVerts == UNION {[1..k -> CutPoints] : k \in 0..MaxNew}

\* the artifacts left in the mesh
CleanBoolDiffArtifacts_Keep(mesh) == mesh

\* clean_bool_diff_artifacts: delete the vertices with abs(z) > 0
CleanBoolDiffArtifacts(mesh) ==
    SelectSeqBy(mesh, {i \in 1..Len(mesh) : ~(Abs(mesh[i][3]) > 0)})

\* boolean_diff: the modifier drops the vertices `removed` and creates `added`;
\* the artifacts are cleaned
BooleanDiff(mesh, removed, added) ==
    CleanBoolDiffArtifacts(SelectSeqBy(mesh, (1..Len(mesh)) \ removed) \o added)

\* bare_pcb_verts recorded only after both cuts
StepAfter_BareLast(step) ==
    CASE step = "cut_npth" -> "cut_pth"
      [] step = "cut_pth" -> "record_bare"
      [] step = "record_bare" -> "record_all"
      [] step = "record_all" -> "cut_done"

\* the order of lines 172-183
StepAfter(step) ==
    CASE step = "cut_npth" -> "record_bare"
      [] step = "record_bare" -> "cut_pth"
      [] step = "cut_pth" -> "record_all"
      [] step = "record_all" -> "cut_done"

\* lines 172-174 (tool = "npth") and 177-179 (tool = "pth")
Cut(step, tool, present, removed, added) ==
    /\ pc = step
    /\ pc' = StepAfter(step)
    /\ IF present
       THEN /\ pcb_verts' = BooleanDiff(pcb_verts, removed, added)
            /\ cut_log' = Append(cut_log,
                             [tool |-> tool,
                              removed |-> {GetVertices(pcb_verts)[i] : i \in removed},
                              verts |-> pcb_verts'])
       ELSE /\ removed = {} /\ added = <<>>
            /\ UNCHANGED <<pcb_verts, cut_log>>
    /\ UNCHANGED <<stkVars, npth, pth, bare_pcb_verts, all_pcb_verts, plated_pcb_verts,
                   outline_verts, bare_cut_count, selVars, lyrVars, extVars>>

CutNPTH(removed, added) == Cut("cut_npth", "npth", npth, removed, added)

CutPTH(removed, added) == Cut("cut_pth", "pth", pth, removed, added)

\* line 176
RecordBare ==
    /\ pc = "record_bare"
    /\ pc' = StepAfter("record_bare")
    /\ bare_pcb_verts' = GetVertices(pcb_verts)
    /\ bare_cut_count' = Len(cut_log)
    /\ UNCHANGED <<stkVars, pcb_verts, npth, pth, all_pcb_verts, plated_pcb_verts,
                   outline_verts, cut_log, selVars, lyrVars, extVars>>

\* lines 181-183
RecordAll ==
    /\ pc = "record_all"
    /\ all_pcb_verts' = GetVertices(pcb_verts)
    /\ IF GetVertsDifferenceDefined(all_pcb_verts', bare_pcb_verts)
       THEN /\ \E tb \in TieBreaks :
                 plated_pcb_verts' = GetVertsDifference(all_pcb_verts', bare_pcb_verts, tb)
            /\ pc' = StepAfter("record_all")
            /\ UNCHANGED error
       ELSE /\ pc' = "failed"
            /\ error' = "TypeError"
            /\ UNCHANGED plated_pcb_verts
    /\ UNCHANGED <<STACKUP, DEFAULT_BRD_THICKNESS, file_exists, json_layers, stackup_data,
                   previous_entry, calculated_thickness, info, in_list, all_list,
                   all_layer_thickness, pcb_verts, npth, pth, bare_pcb_verts,
                   outline_verts, cut_log, bare_cut_count, selVars, lyrVars, extVars>>

\* grid units of one unit of thickness: thicknesses are exact in grid units
ZUnit == 60

\* a thickness as a Z coordinate
ToGrid(q) == (q[1] * ZUnit) \div q[2]

\* the mesh left as it is
ExtrudeMesh_Never(mesh, height) == mesh

\* extrude_mesh(obj, height): every vertex gets a copy moved up by height;
\* nothing is done for height <= 0
ExtrudeMesh(mesh, height) ==
    IF height[1] > 0
    THEN mesh \o [i \in 1..Len(mesh) |->
                     <<mesh[i][1], mesh[i][2], mesh[i][3] + ToGrid(height)>>]
    ELSE mesh

\* lines 208-210: vert.co[2] = layer_width for the vertices with co[2] >= 0.0001
SetLayerWidth(mesh, layer_width) ==
    [i \in 1..Len(mesh) |->
        IF mesh[i][3] >= Tolerance
        THEN <<mesh[i][1], mesh[i][2], ToGrid(layer_width)>>
        ELSE mesh[i]]

\* lines 68-170: the outline mesh (none for n = 0: make_board returns the empty
\* parent object) and the hole meshes are prepared
PrepareMesh(n, np, p) ==
    /\ pc = "layers"
    /\ IF n = 0
       THEN /\ pc' = "made"
            /\ UNCHANGED <<pcb_verts, outline_verts, npth, pth>>
       ELSE /\ pc' = "cut_npth"
            /\ pcb_verts' = OutlineVerts(n)
            /\ outline_verts' = OutlineVerts(n)
            /\ npth' = np
            /\ pth' = p
    /\ UNCHANGED <<stkVars, bare_pcb_verts, all_pcb_verts, plated_pcb_verts, cut_log,
                   bare_cut_count, selVars, lyrVars, extVars>>

\* lines 188-197: the board is extruded by layer_thickness[0]
ExtrudeBoard ==
    /\ pc = "cut_done"
    /\ pc' = "stack"
    /\ pcb_verts' = ExtrudeMesh(pcb_verts, all_layer_thickness[1])
    /\ z_counter' = IF STACKUP THEN all_layer_thickness[1] ELSE z_counter
    /\ UNCHANGED <<stkVars, npth, pth, bare_pcb_verts, all_pcb_verts, plated_pcb_verts,
                   outline_verts, cut_log, bare_cut_count, selVars, new_objs,
                   board_created, error_args, extVars>>

\* one iteration of the loop of lines 198-216: the board is duplicated, the
\* duplicate gets its thickness and is moved up; layer_thickness[i + 1] raises
\* IndexError past the end of the list, after the duplicate was made
StackLayer ==
    /\ pc = "stack"
    /\ STACKUP
    /\ Len(new_objs) < Len(all_list)
    /\ LET i == Len(new_objs)
       IN  IF i + 2 <= Len(all_layer_thickness)
           THEN LET layer_width == all_layer_thickness[i + 2]
                IN  /\ new_objs' = Append(new_objs,
                                       [name |-> i + 2,
                                        verts |-> SetLayerWidth(pcb_verts, layer_width),
                                        location_z |-> ToGrid(z_counter)])
                    /\ z_counter' = RatAdd(z_counter, layer_width)
                    /\ UNCHANGED <<pc, error>>
           ELSE /\ new_objs' = Append(new_objs,
                                   [name |-> i + 2, verts |-> pcb_verts, location_z |-> 0])
                /\ pc' = "failed"
                /\ error' = "IndexError"
                /\ UNCHANGED z_counter
    /\ UNCHANGED <<STACKUP, DEFAULT_BRD_THICKNESS, file_exists, json_layers, stackup_data,
                   previous_entry, calculated_thickness, info, in_list, all_list,
                   all_layer_thickness, brdVars, selVars, board_created, error_args, extVars>>

\* lines 218-257: materials, parenting, bounding box; make_board returns
FinishBoard ==
    /\ pc = "stack"
    /\ STACKUP => Len(new_objs) = Len(all_list)
    /\ pc' = "made"
    /\ LET \* stk.get() at line 230 and, for the upper bounding box corners, at line 247
           got == StackupGet(STACKUP, cache, DEFAULT_BRD_THICKNESS)
       IN  /\ file_reads' = file_reads + Opens(STACKUP, file_exists, cache)
           /\ gets' = gets \o <<got, got>>
    /\ UNCHANGED <<stkVars, brdVars, selVars, lyrVars, cache, runVars, auxVars>>

\* Board.execute, lines 47-48
SaveBoard ==
    /\ pc = "made"
    /\ pc' = "saved"
    /\ board_created' = TRUE
    /\ saves' = Append(saves, "BOARD")
    /\ UNCHANGED <<stkVars, brdVars, selVars, new_objs, z_counter, error_args, getVars,
                   STAGES, modules, executed, exit_status, blend_exists, regenerate, made,
                   auxVars>>

\* DEFAULT_BRD_THICKNESS is any number of the configuration: a usual board
\* thickness, or zero
BoardThicknesses == {0, 16}

\* make_board at line 171, stack-up generation disabled: the layer schedule is
\* the configured thickness alone, the outline mesh is prepared
InitBoard ==
    /\ pc = "cut_npth"
    /\ STACKUP = FALSE
    /\ DEFAULT_BRD_THICKNESS \in BoardThicknesses
    /\ file_exists = FALSE
    /\ json_layers = <<>>
    /\ stackup_data = <<>>
    /\ previous_entry = 0
    /\ calculated_thickness = 0
    /\ info = DefaultInfo(DEFAULT_BRD_THICKNESS)
    /\ in_list = <<>>
    /\ all_list = <<>>
    /\ all_layer_thickness = <<Rat(DEFAULT_BRD_THICKNESS, 1)>>
    /\ error = ""
    /\ \E n \in 1..MaxOutline : pcb_verts = OutlineVerts(n) /\ outline_verts = OutlineVerts(n)
    /\ npth \in BOOLEAN
    /\ pth \in BOOLEAN
    /\ bare_pcb_verts = <<>>
    /\ all_pcb_verts = <<>>
    /\ plated_pcb_verts = <<>>
    /\ cut_log = <<>>
    /\ bare_cut_count = -1
    /\ NoFaceSel
    /\ NoLayers
    /\ NoRun
    /\ NoAux
    /\ cache = NoCache
    /\ file_reads = 0
    /\ gets = <<info>>

NextBoard ==
    \/ \E removed \in SUBSET (1..Len(pcb_verts)), added \in NewVerts : CutNPTH(removed, added)
    \/ RecordBare
    \/ \E removed \in SUBSET (1..Len(pcb_verts)), added \in NewVerts : CutPTH(removed, added)
    \/ RecordAll
    \/ ExtrudeBoard
    \/ FinishBoard
    \/ SaveBoard

SpecBoard == InitBoard /\ [][NextBoard]_vars

-----------------------------------------------------------------------------
(* The whole run for a board without hole files *)

\* the layer records of the stackup.json files of this run
StackLayers ==
    { JsonLayer(<<"F", "Mask">>, Float(1)),
      JsonLayer(<<"dielectric", "1">>, Float(10)),
      JsonLayer(<<"dielectric", "2", "(1/2)">>, Float(4)),
      JsonLayer(<<"In", "1", "Cu">>, Float(3)),
      JsonLayer(<<"B", "Mask">>, Float(1)),
      JsonLayer(<<"B", "Mask">>, IntNum(1)) }

NextStack ==
    \/ LoadStackupFromFile
    \/ \E layer \in StackLayers : ParseLayer(layer)
    \/ ParseEnd
    \/ \E n \in 0..MaxInner : GenerateAllLayersList(n)
    \/ \E n \in 0..1 : PrepareMesh(n, FALSE, FALSE)
    \/ \E removed \in SUBSET (1..Len(pcb_verts)), added \in NewVerts : CutNPTH(removed, added)
    \/ RecordBare
    \/ \E removed \in SUBSET (1..Len(pcb_verts)), added \in NewVerts : CutPTH(removed, added)
    \/ RecordAll
    \/ ExtrudeBoard
    \/ StackLayer
    \/ FinishBoard
    \/ SaveBoard

SpecStack == Init /\ [][NextStack]_vars

-----------------------------------------------------------------------------
(* Claims on the plated and bare edge vertex sets *)

CutDone == pc = "cut_done"

\* two vertices in the same place, within 1e-4
Coincident(a, b) == Dist2(a, b) < Tolerance * Tolerance

\* every vertex of list s coincides with some vertex of list t
Within(s, t) == \A i \in 1..Len(s) : \E j \in 1..Len(t) : Coincident(s[i], t[j])

\* C6 (as claimed): no plated-edge vertex coincides (within 1e-4) with a
\* bare-edge vertex, also when the cut mesh holds several vertices at one place.
C6_PlatedBareDisjoint ==
    CutDone =>
        \A i \in 1..Len(plated_pcb_verts) : \A j \in 1..Len(bare_pcb_verts) :
            ~Coincident(plated_pcb_verts[i], bare_pcb_verts[j])

\* C7 (as claimed): the plated-edge and the bare-edge vertices together are the
\* vertices of the board after the final cut (up to 1e-4), also when the plated
\* cut removes vertices that were recorded as bare.
C7_PlatedBareUnionIsAll ==
    CutDone =>
        /\ Within(all_pcb_verts, plated_pcb_verts \o bare_pcb_verts)
        /\ Within(plated_pcb_verts \o bare_pcb_verts, all_pcb_verts)

\* the plated cut removed a vertex that stands in bare_pcb_verts
PlatedCutRemovedBare ==
    \E k \in 1..Len(cut_log) :
        /\ cut_log[k].tool = "pth"
        /\ \E j \in 1..Len(bare_pcb_verts) : bare_pcb_verts[j] \in cut_log[k].removed

\* C7 (amended): every vertex of the board after the final cut is a plated-edge
\* vertex or coincides with a bare-edge vertex, and every plated-edge vertex is
\* a vertex after the final cut; the bare-edge vertices the plated cut removed
\* stay in the bare set, so the union equals the vertices after the final cut
\* only when the plated cut removed no vertex recorded as bare.
C7_AllCoveredByPlatedAndBare ==
    CutDone =>
        /\ Within(all_pcb_verts, plated_pcb_verts \o bare_pcb_verts)
        /\ Within(plated_pcb_verts, all_pcb_verts)
        /\ ~PlatedCutRemovedBare => Within(bare_pcb_verts, all_pcb_verts)

\* C7 witness: the plated cut removed a bare vertex, which is in no list of the
\* final mesh, and created a plated one
C7_Witness ==
    /\ CutDone
    /\ PlatedCutRemovedBare
    /\ ~Within(bare_pcb_verts, all_pcb_verts)
    /\ plated_pcb_verts # <<>>

BareRecorded == bare_cut_count >= 0

\* C8 (as claimed): the bare-edge vertices are taken from the outline mesh
\* before any hole, non-plated or plated, is cut.
C8_BareBeforeAnyCut ==
    BareRecorded =>
        /\ bare_cut_count = 0
        /\ bare_pcb_verts = GetVertices(outline_verts)

\* C8 (amended): the bare-edge vertices are taken after the non-plated holes
\* are cut (when a non-plated hole mesh is supplied) and before the plated
\* holes are cut: they are the vertices of the mesh the non-plated cut left,
\* those the cut created included, and of the outline mesh only when no
\* non-plated hole mesh is supplied.
C8_BareAfterNpthBeforePth ==
    BareRecorded =>
        /\ bare_cut_count = IF npth THEN 1 ELSE 0
        /\ \A k \in 1..Len(cut_log) : k <= bare_cut_count => cut_log[k].tool = "npth"
        /\ bare_pcb_verts =
             GetVertices(IF npth THEN cut_log[1].verts ELSE outline_verts)

\* C8 witness: both hole meshes supplied; the non-plated cut created a vertex
\* that is in the bare set and the plated cut one that is not
C8_Witness ==
    /\ CutDone
    /\ npth /\ pth
    /\ \E j \in 1..Len(bare_pcb_verts) :
          ~Within(<<bare_pcb_verts[j]>>, GetVertices(outline_verts))
    /\ ~Within(all_pcb_verts, bare_pcb_verts)

\* all_pcb_verts[i] is a vertex of the main list nearest to v
Nearest(i, v) ==
    \A k \in 1..Len(all_pcb_verts) : Dist2(all_pcb_verts[i], v) <= Dist2(all_pcb_verts[k], v)

\* C11: get_verts_difference(all_pcb_verts, bare_pcb_verts) returns the main
\* list without a set of marked indices, the survivors in their order; every
\* marked index is a nearest main vertex, closer than 1e-4, of some remove
\* vertex, and every remove vertex with a main vertex closer than 1e-4 has a
\* nearest one marked; a remove vertex marks at most one index, so at least
\* len(main) - len(remove) vertices survive; the main list itself is unchanged.
C11_DifferenceIsOrderedSubsequence ==
    CutDone =>
        /\ \E marked \in SUBSET (1..Len(all_pcb_verts)) :
              /\ plated_pcb_verts =
                    SelectSeqBy(all_pcb_verts, (1..Len(all_pcb_verts)) \ marked)
              /\ Cardinality(marked) <= Len(bare_pcb_verts)
              /\ \A i \in marked : \E j \in 1..Len(bare_pcb_verts) :
                    /\ Coincident(all_pcb_verts[i], bare_pcb_verts[j])
                    /\ Nearest(i, bare_pcb_verts[j])
              /\ \A j \in 1..Len(bare_pcb_verts) :
                    (\E i \in 1..Len(all_pcb_verts) :
                        Coincident(all_pcb_verts[i], bare_pcb_verts[j]))
                    => \E i \in marked : Nearest(i, bare_pcb_verts[j])
        /\ Len(plated_pcb_verts) >= Len(all_pcb_verts) - Len(bare_pcb_verts)
        /\ all_pcb_verts = GetVertices(pcb_verts)

\* C11 witness: some main vertex was removed, some survived, and some remove
\* vertex marked nothing
C11_Witness ==
    /\ CutDone
    /\ plated_pcb_verts # <<>>
    /\ Len(plated_pcb_verts) < Len(all_pcb_verts)
    /\ Len(plated_pcb_verts) > Len(all_pcb_verts) - Len(bare_pcb_verts)

-----------------------------------------------------------------------------
(* custom_utilities.py: verts_in, face_sel, face_desel *)

\* abs(normal.z) <= 0.5, normal.z > 0.5, normal.z < -0.5: normals in tenths
Half == 5

\* face normals on, between and beyond the two thresholds
NormalZs == {-6, -5, 0, 5, 6}

\* obj.data.vertices[ind].co of the mesh face_sel works on: unrounded
MeshVerts == <<<<300, 0, 0>>, <<301, 0, 0>>, <<600, 0, 0>>>>

\* face.vertices
FaceVertices == {<<1>>, <<3>>, <<3, 2>>}

Faces == [normal_z : NormalZs, vertices : FaceVertices]

\* the edge_verts a caller passes: nothing, or a list get_vertices returned
EdgeVerts ==
    {None} \cup
    {[given |-> TRUE, verts |-> v] :
        v \in {<<>>, <<<<300, 0, 0>>>>, <<<<603, 0, 0>>>>, <<<<603, 0, 0>>, <<300, 0, 0>>>>}}

\* the dist of kd.find(vert) is truthy: not None (empty tree) and not 0.0
\* (the distance is 0.0 exactly when its square is)
DistTruthy(kd, vert) == kd # <<>> /\ FindDist2(kd, vert) # 0

\* verts_in(kd, add_set)
RECURSIVE VertsIn(_, _)
VertsIn(kd, add_set) ==
    IF add_set = <<>> THEN FALSE
    ELSE LET vert == Head(add_set)
         IN  IF DistTruthy(kd, vert) /\ SamePlace(FindDist2(kd, vert)) THEN TRUE
             ELSE VertsIn(kd, Tail(add_set))

\* face_sel, lines 139-141
FaceEdges(face) == [k \in 1..Len(face.vertices) |-> pcb_verts[face.vertices[k]]]

\* normal.z >= 0.5
IsTop_Inclusive(face) == face.normal_z >= Half

\* face_sel, line 145
IsTop(face) == face.normal_z > Half

\* face_sel, line 147
IsBot(face) == face.normal_z < -Half

\* face_sel, lines 137 and 142
IsEdge(face, kd) == Abs(face.normal_z) <= Half /\ VertsIn(kd, FaceEdges(face))

\* the faces a face_sel call sets select = True on
Hit(p, kd) ==
    {f \in 1..Len(faces) :
        CASE p = "edge" -> IsEdge(faces[f], kd)
          [] p = "top" -> IsTop(faces[f])
          [] p = "bot" -> IsBot(faces[f])}

\* select assigned for every side
NewSelect_Assign(p, old, new) == new

\* lines 143, 145, 147: top and bot assign bm.faces[i].select, edge sets it to
\* True or leaves it
NewSelect(p, old, new) == IF p = "edge" THEN old \/ new ELSE new

\* face_sel(obj, pos, edge_verts): top and bot assign every face's select, edge
\* only ever sets it
FaceSel(p, ev) ==
    /\ pc = "mesh"
    /\ pos' = p
    /\ edge_verts' = ev
    /\ LET kd == MakeKdTree(IF ev.given THEN ev.verts ELSE <<>>)
       IN  /\ hit' = Hit(p, kd)
           /\ select' = [f \in 1..Len(faces) |-> NewSelect(p, select[f], f \in Hit(p, kd))]
    /\ UNCHANGED <<pc, stkVars, brdVars, faces, lyrVars, extVars>>

\* face_desel(obj)
FaceDesel ==
    /\ pc = "mesh"
    /\ select' = [f \in 1..Len(faces) |-> FALSE]
    /\ UNCHANGED <<pc, stkVars, brdVars, faces, pos, edge_verts, hit, lyrVars, extVars>>

\* a board mesh in edit mode, whatever faces are selected; no face_sel call yet
InitFaceSel ==
    /\ pc = "mesh"
    /\ STACKUP = FALSE
    /\ DEFAULT_BRD_THICKNESS = 16
    /\ file_exists = FALSE
    /\ json_layers = <<>>
    /\ stackup_data = <<>>
    /\ previous_entry = 0
    /\ calculated_thickness = 0
    /\ info = [thickness |-> 16, stackup_data |-> <<>>]
    /\ in_list = <<>>
    /\ all_list = <<>>
    /\ all_layer_thickness = <<Rat(16, 1)>>
    /\ error = ""
    /\ pcb_verts = MeshVerts
    /\ outline_verts = MeshVerts
    /\ npth = FALSE
    /\ pth = FALSE
    /\ bare_pcb_verts = <<>>
    /\ all_pcb_verts = <<>>
    /\ plated_pcb_verts = <<>>
    /\ cut_log = <<>>
    /\ bare_cut_count = -1
    /\ \E n \in 1..MaxFaces :
          /\ faces \in [1..n -> Faces]
          /\ select \in [1..n -> BOOLEAN]
    /\ pos = "none"
    /\ edge_verts = None
    /\ hit = {}
    /\ NoLayers
    /\ NoRun
    /\ NoAux
    /\ cache = NoCache
    /\ file_reads = 0
    /\ gets = <<info>>

NextFaceSel ==
    \/ \E p \in {"top", "bot", "edge"}, ev \in EdgeVerts : FaceSel(p, ev)
    \/ FaceDesel

SpecFaceSel == InitFaceSel /\ [][NextFaceSel]_vars

-----------------------------------------------------------------------------
(* Claims on the classification of faces *)

\* the last face_sel call was given no reference vertices
NoReference == pos # "none" /\ ~edge_verts.given

TopFaces == {f \in 1..Len(faces) : faces[f].normal_z > Half}

BotFaces == {f \in 1..Len(faces) : faces[f].normal_z < -Half}

SideFaces == {f \in 1..Len(faces) : Abs(faces[f].normal_z) <= Half}

\* C9 (as claimed): computed without reference vertices, the three classes
\* partition the faces: top selects the faces with normal.z > 0.5, bot those with
\* normal.z < -0.5, and edge every face with |normal.z| <= 0.5.
C9_EveryFaceInOneClass ==
    NoReference =>
        /\ pos = "top" => hit = TopFaces
        /\ pos = "bot" => hit = BotFaces
        /\ pos = "edge" => hit = SideFaces

\* C9 (amended): computed without reference vertices, every face is selected by
\* at most one of the three classes: by top exactly when normal.z > 0.5, by bot
\* exactly when normal.z < -0.5, and by edge never, so the faces with
\* |normal.z| <= 0.5 are left in no class.
C9_SideFacesInNoClass ==
    NoReference =>
        /\ pos = "top" => hit = TopFaces
        /\ pos = "bot" => hit = BotFaces
        /\ pos = "edge" => hit = {}
        /\ TopFaces \cap BotFaces = {}
        /\ TopFaces \cup BotFaces = (1..Len(faces)) \ SideFaces

\* C9 witness: edge was computed without reference vertices on a mesh with a
\* face of |normal.z| <= 0.5 exactly on a threshold, and selected nothing
C9_Witness ==
    /\ NoReference
    /\ pos = "edge"
    /\ \E f \in SideFaces : faces[f].normal_z = Half
    /\ hit = {}

\* a vertex of face f lies within 1e-4 of a reference vertex, distance 0 included
NearReference(f) ==
    \E k \in 1..Len(faces[f].vertices), r \in 1..Len(edge_verts.verts) :
        Dist2(pcb_verts[faces[f].vertices[k]], edge_verts.verts[r]) < Tolerance * Tolerance

\* C10 (as claimed): with reference vertices, edge selects exactly the faces with
\* |normal.z| <= 0.5 that have a vertex within 1e-4 of a reference vertex, a
\* vertex exactly on a reference vertex included.
C10_EdgeIffVertexNearReference ==
    (pos = "edge" /\ edge_verts.given) =>
        hit = {f \in SideFaces : NearReference(f)}

-----------------------------------------------------------------------------
(* Claims on the layer stack *)

\* the board was extruded and is being, or was, stacked
Stacking == pc \in {"stack", "made", "saved"} /\ STACKUP /\ pcb_verts # <<>>

\* make_board returned with a board
Stacked == pc \in {"made", "saved"} /\ STACKUP /\ pcb_verts # <<>>

\* lowest and highest Z of a mesh's vertices
Bottom(mesh) == CHOOSE z \in {mesh[i][3] : i \in 1..Len(mesh)} :
                    \A j \in 1..Len(mesh) : z <= mesh[j][3]

Top(mesh) == CHOOSE z \in {mesh[i][3] : i \in 1..Len(mesh)} :
                 \A j \in 1..Len(mesh) : z >= mesh[j][3]

\* C12 (as claimed): with stacking enabled the base board spans Z = 0 to
\* thickness[0]; layer k >= 1 is located at the sum of thickness[0..k-1] and
\* spans its own thickness[k], so each layer starts where the one below ends,
\* and the top of the last layer is at the sum of all thicknesses.
C12_LayersStackWithoutGap ==
    Stacking =>
        /\ Bottom(pcb_verts) = 0
        /\ Top(pcb_verts) = ToGrid(all_layer_thickness[1])
        /\ \A k \in 1..Len(new_objs) :
              /\ k + 1 <= Len(all_layer_thickness)
              /\ new_objs[k].location_z = ToGrid(RatSum(SubSeq(all_layer_thickness, 1, k)))
              /\ Bottom(new_objs[k].verts) = 0
              /\ Top(new_objs[k].verts) = ToGrid(all_layer_thickness[k + 1])
        /\ Stacked =>
              new_objs[Len(new_objs)].location_z + Top(new_objs[Len(new_objs)].verts)
                  = ToGrid(RatSum(all_layer_thickness))

\* C13 (as claimed): with stacking enabled the layer meshes of a finished
\* board, the base and the duplicates, are as many as the thickness list is
\* long, and no layer is left without a thickness entry.
C13_OneThicknessPerLayer ==
    STACKUP =>
        /\ error # "IndexError"
        /\ Stacked => 1 + Len(new_objs) = Len(all_layer_thickness)

\* generate_all_layers_list returned a schedule made from stack-up data
Scheduled == STACKUP /\ info.stackup_data # <<>> /\ all_layer_thickness # <<>>

\* the stack-up entries with "dielectric" in their name, in stack-up order
DielectricEntries ==
    SelectSeqBy(info.stackup_data,
        {i \in 1..Len(info.stackup_data) : Contains(info.stackup_data[i].name, "dielectric")})

\* the summed thickness of the copper entries
CopperSum ==
    LET cu == SelectSeqBy(info.stackup_data,
                  {i \in 1..Len(info.stackup_data) : ContainsCu(info.stackup_data[i].name)})
    IN  Sum([i \in 1..Len(cu) |-> cu[i].thickness.v])

\* the summed thickness of the non-copper entries of a side ("F" or "B") whose
\* thickness is of one of the JSON types given
MaskSum(side, types) ==
    LET m == SelectSeqBy(info.stackup_data,
                 {i \in 1..Len(info.stackup_data) :
                      /\ info.stackup_data[i].name[1] = side
                      /\ Len(info.stackup_data[i].name) = 2
                      /\ info.stackup_data[i].name[2] # "Cu"
                      /\ info.stackup_data[i].thickness.ty \in types})
    IN  Sum([i \in 1..Len(m) |-> m[i].thickness.v])

\* back mask, dielectrics in reverse order, front mask, each with the copper
\* share of the N+3 layers
Sandwich(types) ==
    LET d == DielectricEntries
        share == Rat(CopperSum, Len(all_list) + 1)
    IN  [k \in 1..(Len(d) + 2) |->
            RatAdd(share,
                   IF k = 1 THEN Rat(MaskSum("B", types), 1)
                   ELSE IF k = Len(d) + 2 THEN Rat(MaskSum("F", types), 1)
                   ELSE Rat(d[Len(d) + 2 - k].thickness.v, 1))]

-----------------------------------------------------------------------------
(* Claims on a missing stack-up file *)

\* stk.get() was called
Loaded == pc # "start"

\* C15 (as claimed): with stack-up generation enabled and stackup.json missing,
\* getting the stack-up raises and the run is aborted; no default StackupInfo
\* is returned.
C15_MissingFileIsFatal ==
    (Loaded /\ STACKUP /\ ~file_exists) =>
        /\ pc = "failed"
        /\ error = "RuntimeError: Could not read stackup.json"

\* C15 (amended): with stack-up generation enabled and stackup.json missing,
\* getting the stack-up does not raise: the file is not read, the default
\* StackupInfo (configured thickness, no layers) is returned and the run goes
\* on; "Could not read stackup.json" is raised only for a file that exists.
C15_MissingFileIsTolerated ==
    /\ (Loaded /\ STACKUP /\ ~file_exists) =>
          /\ pc \notin {"parse", "failed"}
          /\ error = ""
          /\ json_layers = <<>>
          /\ info.stackup_data = <<>>
          /\ info.thickness = DEFAULT_BRD_THICKNESS
    /\ error = "RuntimeError: Could not read stackup.json" => STACKUP /\ file_exists

\* C15 witness: a board was stacked and saved with stack-up generation enabled
\* and no stackup.json
C15_Witness ==
    /\ STACKUP /\ ~file_exists
    /\ pc = "saved"
    /\ new_objs # <<>>

\* C16: with stack-up generation disabled, or stackup.json missing, stk.get()
\* returns no layers and the configured default thickness and does not raise;
\* with generation disabled the file is not read.
C16_DefaultWhenDisabledOrMissing ==
    (Loaded /\ (~STACKUP \/ ~file_exists)) =>
        /\ info = [thickness |-> DEFAULT_BRD_THICKNESS, stackup_data |-> <<>>]
        /\ error # "RuntimeError: Could not read stackup.json"
        /\ ~STACKUP => json_layers = <<>> /\ stackup_data = <<>>

\* C16 witness: the stack-up was got with generation disabled although the
\* file exists
C16_Witness ==
    /\ pc = "loaded"
    /\ ~STACKUP /\ file_exists
    /\ info.thickness = DEFAULT_BRD_THICKNESS

-----------------------------------------------------------------------------
(* Claims on the inner layer validation *)

\* generate_all_layers_list was called with stack-up data present
GeneratedFromData ==
    /\ pc \notin {"start", "parse", "loaded"}
    /\ STACKUP
    /\ info.stackup_data # <<>>

\* the number of stack-up entries whose name holds the inner-layer marker
InCount ==
    Cardinality({i \in 1..Len(info.stackup_data) : Contains(info.stackup_data[i].name, "In")})

\* C17: with stack-up data present and a number of "In" entries other than the
\* number of inner-layer images, generate_all_layers_list raises the mismatch
\* error with both counts; no thickness list was made, no mesh exists and
\* nothing was saved.
C17_InnerLayerMismatchIsFatal ==
    (GeneratedFromData /\ InCount # Len(in_list)) =>
        /\ pc = "failed"
        /\ error = "RuntimeError: Stackup layer mismatch"
        /\ error_args = <<Len(in_list), InCount>>
        /\ all_layer_thickness = <<>>
        /\ all_list = <<>>
        /\ pcb_verts = <<>>
        /\ new_objs = <<>>
        /\ ~board_created

\* C17 witness: one inner-layer image found and two "In" entries in the stack-up
C17_Witness ==
    /\ GeneratedFromData
    /\ Len(in_list) = 1
    /\ InCount = 2
    /\ error_args = <<1, 2>>

-----------------------------------------------------------------------------
(* Claims on the base board solid *)

\* the base board went through extrude_mesh
Extruded == pc \in {"stack", "made", "saved"} /\ pcb_verts # <<>>

\* the mesh the last cut left, the outline if nothing was cut
LastCutMesh == IF cut_log = <<>> THEN outline_verts ELSE cut_log[Len(cut_log)].verts

\* C18: every cut leaves, after its cleanup, a mesh with all vertices at Z = 0;
\* the mesh is extruded after the last cut; extruded by t > 0 it has the
\* vertices of the cut mesh at Z = 0 and their copies at Z = t, and for t <= 0
\* it is the cut mesh unchanged.
C18_BaseVerticesAtZeroOrThickness ==
    /\ \A k \in 1..Len(cut_log) : \A i \in 1..Len(cut_log[k].verts) :
          cut_log[k].verts[i][3] = 0
    /\ pc \in {"cut_npth", "record_bare", "cut_pth", "record_all", "cut_done"} =>
          \A i \in 1..Len(pcb_verts) : pcb_verts[i][3] = 0
    /\ Extruded =>
          LET t == all_layer_thickness[1]
          IN  IF t[1] > 0
              THEN /\ \A i \in 1..Len(pcb_verts) : pcb_verts[i][3] \in {0, ToGrid(t)}
                   /\ SubSeq(pcb_verts, 1, Len(LastCutMesh)) = LastCutMesh
                   /\ Len(pcb_verts) = 2 * Len(LastCutMesh)
                   /\ \A i \in 1..Len(LastCutMesh) :
                         pcb_verts[Len(LastCutMesh) + i][3] = ToGrid(t)
              ELSE pcb_verts = LastCutMesh

\* C18 witness: both holes were cut, the second cut created a vertex, and the
\* board was extruded by a positive thickness
C18_Witness ==
    /\ Extruded
    /\ Len(cut_log) = 2
    /\ Len(cut_log[2].verts) > Len(cut_log[1].verts)
    /\ all_layer_thickness[1][1] > 0
    /\ \E i \in 1..Len(pcb_verts) : pcb_verts[i][3] = ToGrid(all_layer_thickness[1])

-----------------------------------------------------------------------------
(* Claims on missing hole meshes *)

\* get_verts_difference returned
DifferenceTaken == pc \in {"cut_done", "stack", "made", "saved"}

\* C19 (as claimed): without a plated-hole mesh no plated cut is made and the
\* plated-edge vertex set is empty; without a non-plated-hole mesh no
\* non-plated cut is made; a run without hole meshes fails nowhere.
C19_MissingHolesAreSkipped ==
    /\ ~pth =>
          /\ \A k \in 1..Len(cut_log) : cut_log[k].tool # "pth"
          /\ DifferenceTaken => plated_pcb_verts = <<>>
    /\ ~npth => \A k \in 1..Len(cut_log) : cut_log[k].tool # "npth"
    /\ (~pth /\ ~npth) => pc # "failed" /\ error = ""

-----------------------------------------------------------------------------
(* Claims on repeated classification *)

\* some face is selected: the step was a face_sel call that selected a face
\* or kept one selected (face_desel leaves none)
SomeSelected == \E f \in 1..Len(faces) : select[f]

\* C20 (as claimed): after a face_sel call the selected faces are those the
\* call finds for the mesh, the side and the reference vertices, whatever was
\* selected before; a repeated call finds the same faces; the mesh is unchanged.
C20_SelectionIsGeometric ==
    [][SomeSelected' =>
          /\ \A f \in 1..Len(faces) : select'[f] <=> f \in hit'
          /\ (pos' = pos /\ edge_verts' = edge_verts) => hit' = hit
          /\ faces' = faces /\ pcb_verts' = pcb_verts]_vars

\* C20 (amended): a call for top or bot leaves selected exactly the faces it
\* finds, whatever was selected before; a call for edge adds the faces it
\* finds to the selection and deselects none, so its result is the geometric
\* one only on a cleared selection; a repeated call finds the same faces and
\* leaves the same selection; the mesh is unchanged.
C20_EdgeAddsToSelection ==
    [][SomeSelected' =>
          /\ \A f \in 1..Len(faces) :
                select'[f] <=> (f \in hit' \/ (pos' = "edge" /\ select[f]))
          /\ (pos' = pos /\ edge_verts' = edge_verts) =>
                /\ hit' = hit
                /\ (\A f \in 1..Len(faces) : select[f] <=> (f \in hit \/ (pos = "edge" /\ select[f])))
                      => select' = select
          /\ faces' = faces /\ pcb_verts' = pcb_verts]_vars

\* C20 witness: after an edge call a face the call found is selected next to
\* one it did not find, which was selected before
C20_Witness ==
    /\ pos = "edge"
    /\ hit # {}
    /\ \E f \in 1..Len(faces) : select[f] /\ f \notin hit

-----------------------------------------------------------------------------
(* C21: stk.get() within one run *)

\* C21: within one run every stk.get() call returns the same layer list and
\* the same total thickness, the stack-up file is opened at most once, and
\* what the cache holds for the path is what every call returned, so no
\* consumer changed the cached entries between two calls.
C21_EveryGetReturnsTheSame ==
    /\ \A i, j \in 1..Len(gets) : gets[i] = gets[j]
    /\ file_reads <= 1
    /\ (cache.set /\ gets # <<>>) =>
          /\ gets[1].stackup_data = cache.stackup_data
          /\ gets[1].thickness = cache.thickness

\* make_board returned after reading a stack-up with layers: the parse and
\* the five later calls of generate_all_layers_list and make_board
C21_Witness ==
    /\ pc = "made"
    /\ STACKUP /\ file_reads = 1
    /\ Len(gets) >= 5
    /\ Len(gets[1].stackup_data) >= 2

-----------------------------------------------------------------------------
(* C23: the merge pass on an already merged list *)

\* no layer of the list is named "dielectric N (i/k)"
NoPartSuffix(layers) == \A i \in 1..Len(layers) : ~PatternMatch(layers[i].name)

-----------------------------------------------------------------------------
(* gerber2blend.py: the pipeline of stages, with Board.execute in full *)

\* the Module subclasses find_module finds in gerber2blend.modules, by their
\* upper-cased class names
ModuleClasses == {"CLEARSCENE", "GERBCONVERT", "BOARD", "VERSIONSTAMPER"}

\* a find_module that returns a class for any name
FindModule_Any(name) == TRUE

\* find_module(name) returned a class
FindModule(name) == name \in ModuleClasses

\* the STAGES lists of the configurations of this run; SHADERS names a stage
\* no class of gerber2blend.modules implements
StagePlans ==
    { <<>>,
      <<"BOARD">>,
      <<"GERBCONVERT", "BOARD", "VERSIONSTAMPER">>,
      <<"BOARD", "SHADERS">>,
      <<"SHADERS", "BOARD">> }

\* the layer records of the stackup.json files of this run
RunLayers ==
    { JsonLayer(<<"F", "Mask">>, Float(1)),
      JsonLayer(<<"dielectric", "1">>, Float(10)),
      JsonLayer(<<"In", "1", "Cu">>, Float(3)) }

\* create_modules(conf["STAGES"]), called at line 152: every name is resolved
\* and instantiated before run_modules_for_config runs the first job
CreateModules ==
    /\ pc = "main"
    /\ IF \A i \in 1..Len(STAGES) : FindModule(STAGES[i])
       THEN /\ pc' = "run"
            /\ modules' = STAGES
            /\ UNCHANGED error
       ELSE \* lines 133-137
            /\ pc' = "failed"
            /\ error' = "RuntimeError: Could not find module"
            /\ UNCHANGED modules
    /\ UNCHANGED <<STACKUP, DEFAULT_BRD_THICKNESS, file_exists, json_layers, stackup_data,
                   previous_entry, calculated_thickness, info, in_list, all_list,
                   all_layer_thickness, brdVars, selVars, lyrVars, getVars, STAGES,
                   executed, exit_status, blend_exists, regenerate, saves, made, auxVars>>

\* the job the loop of lines 155-158 runs next
NextJob == modules[Len(executed) + 1]

\* one iteration of the loop of lines 155-158 for a stage other than BOARD:
\* execute() returns or raises; VersionStamper.execute ends with save_pcb_blend
ExecuteModule(ok) ==
    /\ pc = "run"
    /\ Len(executed) < Len(modules)
    /\ NextJob # "BOARD"
    /\ executed' = Append(executed, NextJob)
    /\ IF ok
       THEN /\ saves' = IF NextJob = "VERSIONSTAMPER" THEN Append(saves, NextJob) ELSE saves
            /\ UNCHANGED <<pc, error>>
       ELSE /\ pc' = "failed"
            /\ error' = "Exception"
            /\ UNCHANGED saves
    /\ UNCHANGED <<STACKUP, DEFAULT_BRD_THICKNESS, file_exists, json_layers, stackup_data,
                   previous_entry, calculated_thickness, info, in_list, all_list,
                   all_layer_thickness, brdVars, selVars, lyrVars, getVars, STAGES,
                   modules, exit_status, blend_exists, regenerate, made, auxVars>>

\* Board.execute returns at once whenever the .blend file exists
SkipBoard_WhenExists(exists, regen) == exists

\* Board.execute, line 41
SkipBoard(exists, regen) == exists /\ ~regen

\* Board.execute, lines 39-45: return at once, or call make_board
BoardExecute ==
    /\ pc = "run"
    /\ Len(executed) < Len(modules)
    /\ NextJob = "BOARD"
    /\ executed' = Append(executed, NextJob)
    /\ IF SkipBoard(blend_exists, regenerate)
       THEN UNCHANGED <<pc, made>>
       ELSE /\ pc' = "start"
            /\ made' = TRUE
    /\ UNCHANGED <<stkVars, brdVars, selVars, lyrVars, getVars, STAGES, modules,
                   exit_status, blend_exists, regenerate, saves, auxVars>>

\* Board.execute returns after the save (lines 49-55, GENERATE_GLTF off)
BoardReturn ==
    /\ pc = "saved"
    /\ made
    /\ pc' = "run"
    /\ UNCHANGED <<stkVars, brdVars, selVars, lyrVars, extVars>>

\* a main that exits with status 0 whatever happened
ExitStatus_Zero(failed) == 0

\* main, lines 171-182: an exception of any stage is logged and the process
\* exits with status 1; without one main returns and the status is 0
ExitStatus(failed) == IF failed THEN 1 ELSE 0

\* the process ends
MainExit ==
    /\ \/ pc = "failed"
       \/ pc = "run" /\ Len(executed) = Len(modules)
    /\ pc' = "exited"
    /\ exit_status' = ExitStatus(pc = "failed")
    /\ UNCHANGED <<stkVars, brdVars, selVars, lyrVars, getVars, STAGES, modules, executed,
                   blend_exists, regenerate, saves, made, auxVars>>

\* main after config.init_global: a stage list, a .blend file that exists or
\* not, the -r switch given or not
InitRun ==
    /\ pc = "main"
    /\ NoBoard
    /\ NoFaceSel
    /\ NoLayers
    /\ NoAux
    /\ STAGES \in StagePlans
    /\ modules = <<>>
    /\ executed = <<>>
    /\ exit_status = -1
    /\ blend_exists \in BOOLEAN
    /\ regenerate \in BOOLEAN
    /\ saves = <<>>
    /\ made = FALSE
    /\ cache = NoCache
    /\ file_reads = 0
    /\ gets = <<>>
    /\ STACKUP \in BOOLEAN
    /\ DEFAULT_BRD_THICKNESS \in DefaultThicknesses
    /\ file_exists \in BOOLEAN
    /\ json_layers = <<>>
    /\ stackup_data = <<>>
    /\ previous_entry = 0
    /\ calculated_thickness = 0
    /\ info = [thickness |-> 0, stackup_data |-> <<>>]
    /\ in_list = <<>>
    /\ all_list = <<>>
    /\ all_layer_thickness = <<>>
    /\ error = ""

NextRun ==
    \/ CreateModules
    \/ \E ok \in BOOLEAN : ExecuteModule(ok)
    \/ BoardExecute
    \/ LoadStackupFromFile
    \/ \E layer \in RunLayers : ParseLayer(layer)
    \/ ParseEnd
    \/ \E n \in 0..1 : GenerateAllLayersList(n)
    \/ \E n \in 0..1 : PrepareMesh(n, FALSE, FALSE)
    \/ \E removed \in SUBSET (1..Len(pcb_verts)), added \in NewVerts : CutNPTH(removed, added)
    \/ RecordBare
    \/ \E removed \in SUBSET (1..Len(pcb_verts)), added \in NewVerts : CutPTH(removed, added)
    \/ RecordAll
    \/ ExtrudeBoard
    \/ StackLayer
    \/ FinishBoard
    \/ SaveBoard
    \/ BoardReturn
    \/ MainExit

SpecRun == InitRun /\ [][NextRun]_vars

-----------------------------------------------------------------------------
(* C22, C25, C26, C27: Board.execute within the pipeline *)

\* the exceptions the stages of make_board raise
MakeBoardErrors ==
    { "RuntimeError: Could not read stackup.json",
      "RuntimeError: Stackup layer mismatch",
      "TypeError",
      "IndexError" }

MakeBoardRaised == error \in MakeBoardErrors

\* s[i] = x for some i
Holds(s, x) == \E i \in 1..Len(s) : s[i] = x

\* C22: board generation is fail-fast: once a stage of make_board has raised,
\* Board.execute does not reach save_pcb_blend and does not mark the board
\* created, no later module of the pipeline is executed, the run can only
\* exit, and it exits with a non-zero status.
C22_MakeBoardFailureIsFatal ==
    MakeBoardRaised =>
        /\ made
        /\ pc \in {"failed", "exited"}
        /\ ~Holds(saves, "BOARD")
        /\ ~board_created
        /\ executed[Len(executed)] = "BOARD"
        /\ pc = "exited" => exit_status # 0

\* the process has exited after make_board raised while it stacked the
\* layers, with a stage still waiting behind BOARD
C22_Witness ==
    /\ pc = "exited"
    /\ error = "IndexError"
    /\ new_objs # <<>>
    /\ Len(executed) < Len(modules)
    /\ exit_status = 1

BoardExecuted == Holds(executed, "BOARD")

\* Board.execute has returned without an exception
BoardReturned == BoardExecuted /\ error = "" /\ pc \in {"run", "exited"}

\* C25: Board.execute generates and saves a board iff the .blend file does
\* not exist or the regenerate flag is set; when the file exists and
\* regenerate is not set it returns without calling make_board or saving
\* anything, and config.board_created stays false.
C25_GenerateIffMissingOrRegenerate ==
    /\ (BoardExecuted /\ blend_exists /\ ~regenerate) =>
          /\ ~made
          /\ ~board_created
          /\ ~Holds(saves, "BOARD")
          /\ gets = <<>> /\ pcb_verts = <<>>
    /\ made => (~blend_exists \/ regenerate)
    /\ (BoardReturned /\ (~blend_exists \/ regenerate)) =>
          /\ made
          /\ board_created
          /\ Holds(saves, "BOARD")

\* the run ended after Board.execute found the file and skipped the
\* generation, and the stage behind it ran
C25_Witness ==
    /\ pc = "exited" /\ exit_status = 0
    /\ blend_exists /\ ~regenerate
    /\ executed = <<"GERBCONVERT", "BOARD", "VERSIONSTAMPER">>

\* C26 (as claimed): config.board_created becomes true and a .blend file is
\* saved by Board.execute only when a board mesh was built; when the outline
\* mesh cannot be created, the board is neither marked created nor saved.
C26_CreatedOnlyWithBoardMesh ==
    (board_created \/ Holds(saves, "BOARD")) => pcb_verts # <<>>

\* s is the beginning of t
IsPrefix(s, t) == Len(s) <= Len(t) /\ SubSeq(t, 1, Len(s)) = s

\* C27: a module is executed only after every entry of STAGES was resolved to
\* a Module subclass and instantiated; a stage name without a class raises
\* RuntimeError before any module has executed; otherwise execute() is called
\* once per entry, in STAGES order, and the loop stops at the first module
\* that raises.
C27_ExecuteAfterAllResolved ==
    /\ IsPrefix(executed, STAGES)
    /\ executed # <<>> =>
          /\ modules = STAGES
          /\ \A i \in 1..Len(STAGES) : STAGES[i] \in ModuleClasses
    /\ (\E i \in 1..Len(STAGES) : STAGES[i] \notin ModuleClasses) =>
          /\ executed = <<>>
          /\ pc \in {"main", "failed", "exited"}
          /\ pc # "main" => error = "RuntimeError: Could not find module"
    /\ (pc = "exited" /\ exit_status = 0) => executed = STAGES
    /\ error # "" => pc \in {"failed", "exited"}

\* the run ended after the second of three stages raised: the third was
\* created and never executed
C27_Witness ==
    /\ pc = "exited"
    /\ STAGES = <<"GERBCONVERT", "BOARD", "VERSIONSTAMPER">>
    /\ modules = STAGES
    /\ executed = <<"GERBCONVERT", "BOARD">>
    /\ error # ""

-----------------------------------------------------------------------------
(* gerbv_convert.py: do_remove_via_holes *)

\* via_min_diameter = 0.5, in tenths of a millimetre
ViaMinDiameter == 5

\* %ADD<d>C,<size>*%: an aperture definition, modifiers[0][0] in tenths
ADParamStmt(d, size) == [kind |-> "ADParam", d |-> d, size |-> size, x |-> 0]
\* D<d>*: the aperture d is selected
ApertureStmt(d) == [kind |-> "Aperture", d |-> d, size |-> 0, x |-> 0]
\* X<x>Y..D03*: a coordinate statement
CoordStmt(x) == [kind |-> "Coord", d |-> 0, size |-> 0, x |-> x]
\* G04 ...*: a statement of any other type
CommentStmt == [kind |-> "Comment", d |-> 0, size |-> 0, x |-> 0]

\* the statements a PTH Gerber may hold: a via aperture at the threshold, a
\* larger one, selections, drill hits, comments
GerberStatements ==
    { ADParamStmt(10, 5), ADParamStmt(11, 6),
      ApertureStmt(10), ApertureStmt(11),
      CoordStmt(1), CoordStmt(2),
      CommentStmt }

\* lines 198-209: the file is looked for and loaded
RemoveViaStart ==
    /\ pc = "vias_start"
    /\ pc' = IF pth_gbr_exists THEN "vias" ELSE "vias_done"
    /\ UNCHANGED <<stkVars, brdVars, selVars, lyrVars, getVars, runVars, viaVars, cfgVars,
                   colVars>>

\* one iteration of the loop of lines 211-228
ViaStatement(obj) ==
    /\ pc = "vias"
    /\ Len(statements) < MaxStatements
    /\ statements' = Append(statements, obj)
    /\ apertures_to_remove' =
         IF obj.kind = "ADParam" /\ obj.size <= ViaMinDiameter
         THEN Append(apertures_to_remove, obj.d)
         ELSE apertures_to_remove
    /\ entered_apertures_to_remove' =
         CASE obj.kind = "ADParam" -> entered_apertures_to_remove
           [] obj.kind = "Aperture" ->
                \E i \in 1..Len(apertures_to_remove) : apertures_to_remove[i] = obj.d
           [] obj.kind = "Coord" -> entered_apertures_to_remove
           [] OTHER -> FALSE
    /\ new_objects' =
         IF obj.kind = "Coord" /\ entered_apertures_to_remove
         THEN new_objects
         ELSE Append(new_objects, obj)
    /\ UNCHANGED <<pc, stkVars, brdVars, selVars, lyrVars, getVars, runVars, pth_gbr_exists,
                   cfgVars, colVars>>

\* lines 230-231: the filtered statements are written back
WriteVias ==
    /\ pc = "vias"
    /\ pc' = "vias_done"
    /\ UNCHANGED <<stkVars, brdVars, selVars, lyrVars, getVars, runVars, viaVars, cfgVars,
                   colVars>>

\* the stack-up, board and face variables of a run that has not reached them
NoStackup ==
    /\ STACKUP = FALSE
    /\ DEFAULT_BRD_THICKNESS = 16
    /\ file_exists = FALSE
    /\ json_layers = <<>>
    /\ stackup_data = <<>>
    /\ previous_entry = 0
    /\ calculated_thickness = 0
    /\ info = [thickness |-> 0, stackup_data |-> <<>>]
    /\ in_list = <<>>
    /\ all_list = <<>>
    /\ all_layer_thickness = <<>>
    /\ error = ""
    /\ cache = NoCache
    /\ file_reads = 0
    /\ gets = <<>>
    /\ NoBoard
    /\ NoFaceSel
    /\ NoLayers

\* GerbConvert.execute at line 69, IGNORE_VIAS on
InitVia ==
    /\ pc = "vias_start"
    /\ NoStackup
    /\ NoRun
    /\ pth_gbr_exists \in BOOLEAN
    /\ statements = <<>>
    /\ new_objects = <<>>
    /\ apertures_to_remove = <<>>
    /\ entered_apertures_to_remove = FALSE
    /\ template_cfg = EmptyCfg
    /\ project_cfg = EmptyCfg
    /\ project_exists = FALSE
    /\ local_before = EmptyCfg
    /\ handled = "none"
    /\ SILKSCREEN = <<>>
    /\ SOLDERMASK = <<>>
    /\ mask_colors = <<>>
    /\ silk_color = <<>>

NextVia ==
    \/ RemoveViaStart
    \/ \E obj \in GerberStatements : ViaStatement(obj)
    \/ WriteVias

SpecVia == InitVia /\ [][NextVia]_vars

-----------------------------------------------------------------------------
(* C24: the via filter *)

\* the index of the last aperture selection before statement i, 0 if none
LastSelection(stmts, i) ==
    LET S == {j \in 1..(i - 1) : stmts[j].kind = "Aperture"}
    IN  IF S = {} THEN 0 ELSE CHOOSE j \in S : \A k \in S : k <= j

\* the aperture selected when statement i is issued was defined, before its
\* selection, with a diameter of at most 0.5
ViaApertureSelected(stmts, i) ==
    LET j == LastSelection(stmts, i)
    IN  /\ j > 0
        /\ \E k \in 1..(j - 1) :
              /\ stmts[k].kind = "ADParam"
              /\ stmts[k].d = stmts[j].d
              /\ stmts[k].size <= ViaMinDiameter

\* C24 (as claimed): the filter drops every coordinate statement issued while
\* an aperture of diameter <= 0.5 is the selected aperture and keeps every
\* other statement in original order, whatever statements stand between the
\* selection and the coordinate statement.
C24_ViaCoordinatesDropped ==
    pc \in {"vias", "vias_done"} =>
        new_objects =
            SelectSeqBy(statements,
                        {i \in 1..Len(statements) :
                            ~(statements[i].kind = "Coord" /\ ViaApertureSelected(statements, i))})

-----------------------------------------------------------------------------
(* core/blendcfg.py: update_yamls, merge_blendcfg; config.py: handle_config *)

\* a YAML value that is not a mapping (a number, a string, a list)
Scalar(v) == [map |-> FALSE, val |-> v, items |-> EmptyCfg]

\* a YAML value that is a mapping
Mapping(m) == [map |-> TRUE, val |-> 0, items |-> m]

\* the sections and the settings of a blendcfg.yaml
TopKeys == {"SETTINGS", "EFFECTS"}
SubKeys == {"DPI", "FAB_DIR"}

\* the mappings of settings whose values are v
FlatCfgs(v) == UNION {[D -> {Scalar(v)}] : D \in SUBSET SubKeys}

\* the configuration files whose values are v: each section is missing, holds
\* a plain value, or holds a mapping of settings
Cfgs(v) ==
    UNION {[D -> {Scalar(v)} \cup {Mapping(m) : m \in FlatCfgs(v)}] : D \in SUBSET TopKeys}

\* the value every setting of the template has, and of the local file
TemplateValue == 1
LocalValue == 2

\* an update in which the source's value replaces the target's
UpdateYamls_SourceWins(source, target) ==
    [key \in DOMAIN source \cup DOMAIN target |->
        IF key \in DOMAIN source THEN source[key] ELSE target[key]]

\* update_yamls(source, target): the target after the loop, which is also the
\* return value
RECURSIVE UpdateYamls(_, _)
UpdateYamls(source, target) ==
    [key \in DOMAIN source \cup DOMAIN target |->
        IF key \in DOMAIN target
        THEN IF key \in DOMAIN source /\ source[key].map /\ target[key].map
             THEN Mapping(UpdateYamls(source[key].items, target[key].items))
             ELSE target[key]
        ELSE source[key]]

\* a merge with the two directions exchanged
MergeBlendcfg_Swapped(project, template, ow) ==
    IF ow THEN UpdateYamls(template, project) ELSE UpdateYamls(project, template)

\* merge_blendcfg, lines 288-292: cfg
MergeBlendcfg(project, template, ow) ==
    IF ow THEN UpdateYamls(project, template) ELSE UpdateYamls(template, project)

\* handle_config(overwrite): the template is copied when the project has no
\* blendcfg.yaml, otherwise the merged configuration is written over it
HandleConfig(ow) ==
    /\ pc = "config"
    /\ local_before' = project_cfg
    /\ IF ~project_exists
       THEN /\ project_cfg' = template_cfg
            /\ project_exists' = TRUE
            /\ handled' = "copy"
       ELSE /\ project_cfg' = MergeBlendcfg(project_cfg, template_cfg, ow)
            /\ handled' = IF ow THEN "overwrite" ELSE "merge"
            /\ UNCHANGED project_exists
    /\ UNCHANGED <<pc, stkVars, brdVars, selVars, lyrVars, getVars, runVars, viaVars,
                   template_cfg, colVars>>

\* config.init_global before handle_config: a template, and a project
\* directory with or without a blendcfg.yaml
InitCfg ==
    /\ pc = "config"
    /\ NoStackup
    /\ NoRun
    /\ pth_gbr_exists = FALSE
    /\ statements = <<>>
    /\ new_objects = <<>>
    /\ apertures_to_remove = <<>>
    /\ entered_apertures_to_remove = FALSE
    /\ template_cfg \in Cfgs(TemplateValue)
    /\ project_exists \in BOOLEAN
    /\ project_cfg \in (IF project_exists THEN Cfgs(LocalValue) ELSE {EmptyCfg})
    /\ local_before = EmptyCfg
    /\ handled = "none"
    /\ SILKSCREEN = <<>>
    /\ SOLDERMASK = <<>>
    /\ mask_colors = <<>>
    /\ silk_color = <<>>

NextCfg == \E ow \in BOOLEAN : HandleConfig(ow)

SpecCfg == InitCfg /\ [][NextCfg]_vars

-----------------------------------------------------------------------------
(* C28, C29: what the merged configuration holds *)

\* the last handle_config call merged two files
Merged == handled \in {"merge", "overwrite"}

\* the arguments of the update_yamls call of the last merge
Source == IF handled = "overwrite" THEN local_before ELSE template_cfg
Target == IF handled = "overwrite" THEN template_cfg ELSE local_before

\* the result the claim describes: the source's value for every key of the
\* source, recursively for mappings, and the target's value elsewhere
RECURSIVE Overwritten(_, _)
Overwritten(source, target) ==
    [key \in DOMAIN source \cup DOMAIN target |->
        IF key \notin DOMAIN source THEN target[key]
        ELSE IF key \in DOMAIN target /\ source[key].map /\ target[key].map
        THEN Mapping(Overwritten(source[key].items, target[key].items))
        ELSE source[key]]

BothMappings(s, t, key) ==
    key \in DOMAIN s /\ key \in DOMAIN t /\ s[key].map /\ t[key].map

Paths(cfg) ==
    {<<key>> : key \in DOMAIN cfg}
    \cup UNION {{<<key, sub>> : sub \in DOMAIN cfg[key].items} : key \in DOMAIN cfg}

\* the value the file holds under a path
ValueAt(cfg, path) ==
    IF Len(path) = 1 THEN cfg[path[1]] ELSE cfg[path[1]].items[path[2]]

\* the paths under which the file holds a value that is not a mapping
Leaves(cfg) == {path \in Paths(cfg) : ~ValueAt(cfg, path).map}

SameShape(a, b) == \A key \in DOMAIN a \cap DOMAIN b : a[key].map = b[key].map

\* the file whose values the merge keeps
Kept == IF handled = "overwrite" THEN template_cfg ELSE local_before

-----------------------------------------------------------------------------
(* core/schema.py: Color; materials.py: set_soldermask_color, set_silkscreen_color *)

\* a word of a configuration string that is not six hex digits
Word(w) == [w |-> w, h |-> <<>>]
\* a word made of hex digits, given by the digits' values
HexWord(h) == [w |-> "", h |-> h]

\* [0-9A-Fa-f]{6}
IsHex6(tok) == Len(tok.h) = 6 /\ \A i \in 1..6 : tok.h[i] \in 0..15

\* YAML values: a string as the words non-word characters separate, with a
\* leading # dropped; null; a number
Str(toks) == [ty |-> "str", toks |-> toks]
YamlNull == [ty |-> "null", toks |-> <<>>]
YamlInt == [ty |-> "int", toks |-> <<>>]

\* what Color._deserialize returns: [name], or the list of one pair
\* re.findall returns
PresetList(toks) == [ty |-> "preset", toks |-> toks]
PairList(toks) == [ty |-> "pair", toks |-> toks]
Invalid == [ty |-> "invalid", toks |-> <<>>]

SilkscreenPresets == {"White", "Black"}
SoldermaskPresets == {"Black", "White", "Green", "Blue", "Red"}

\* a Color field without allow_none
Deserialize_NoneRejected(value, presets) ==
    IF value.ty = "str" /\ Len(value.toks) = 1 /\ value.toks[1].w \in presets
    THEN PresetList(value.toks)
    ELSE IF value.ty = "str" /\ Len(value.toks) = 2
            /\ IsHex6(value.toks[1]) /\ IsHex6(value.toks[2])
    THEN PairList(value.toks)
    ELSE Invalid

\* Color(presets, allow_none=True): None passes, a string goes through
\* _deserialize (lines 17-27), anything else is a ValidationError
Deserialize(value, presets) ==
    IF value.ty = "null" THEN YamlNull
    ELSE Deserialize_NoneRejected(value, presets)

\* the SILKSCREEN and SOLDERMASK values a blendcfg.yaml may hold
ColorInputs ==
    { Str(<<Word("White")>>), Str(<<Word("Black")>>), Str(<<Word("Green")>>),
      Str(<<Word("Blue")>>), Str(<<Word("Red")>>), Str(<<Word("Yellow")>>),
      Str(<<HexWord(<<10, 10, 11, 11, 12, 12>>), HexWord(<<1, 1, 2, 2, 3, 3>>)>>),
      Str(<<HexWord(<<10, 10, 11, 11, 12, 12>>)>>),
      YamlNull,
      YamlInt }

\* the schema is loaded: both fields deserialize, or the configuration is
\* rejected
ValidateColors ==
    /\ pc = "colors"
    /\ LET silk == Deserialize(SILKSCREEN, SilkscreenPresets)
           mask == Deserialize(SOLDERMASK, SoldermaskPresets)
       IN  IF silk = Invalid \/ mask = Invalid
           THEN /\ pc' = "failed"
                /\ error' = "ValidationError"
                /\ UNCHANGED <<SILKSCREEN, SOLDERMASK>>
           ELSE /\ pc' = "materials"
                /\ SILKSCREEN' = silk
                /\ SOLDERMASK' = mask
                /\ UNCHANGED error
    /\ UNCHANGED <<STACKUP, DEFAULT_BRD_THICKNESS, file_exists, json_layers, stackup_data,
                   previous_entry, calculated_thickness, info, in_list, all_list,
                   all_layer_thickness, brdVars, selVars, lyrVars, getVars, runVars,
                   viaVars, cfgVars, mask_colors, silk_color>>

\* int(str(word), 16)
RECURSIVE Int16(_)
Int16(h) == IF h = <<>> THEN 0 ELSE 16 * Int16(SubSeq(h, 1, Len(h) - 1)) + h[Len(h)]

\* hex_to_rgba(hex_value, 1.0): the red, green and blue bytes
HexToRgb(v) == <<(v \div 65536) % 256, (v \div 256) % 256, v % 256>>

\* set_soldermask_color: colors_dict
SoldermaskColors ==
    [Black |-> <<2169112, 1379842>>,
     White |-> <<16777215, 10130323>>,
     Green |-> <<159785, 474644>>,
     Blue  |-> <<144493, 1057089>>,
     Red   |-> <<13638416, 8590347>>]

\* set_silkscreen_color: colors_dict
SilkscreenColors == [Black |-> 0, White |-> 11779778]

\* set_soldermask_color(config.blendcfg["SETTINGS"]["SOLDERMASK"])
SetSoldermaskColor ==
    /\ pc = "materials"
    /\ IF SOLDERMASK.ty = "null"
       THEN \* soldermask_color[0] on None, line 122
            /\ pc' = "failed"
            /\ error' = "TypeError"
            /\ UNCHANGED mask_colors
       ELSE IF SOLDERMASK.ty = "pair"
       THEN \* len(soldermask_color[0]) == 2: the pair of custom colours
            /\ pc' = "soldermask_set"
            /\ mask_colors' = <<HexToRgb(Int16(SOLDERMASK.toks[1].h)),
                                HexToRgb(Int16(SOLDERMASK.toks[2].h))>>
            /\ UNCHANGED error
       ELSE IF SOLDERMASK.toks[1].w \in DOMAIN SoldermaskColors
       THEN /\ pc' = "soldermask_set"
            /\ mask_colors' = <<HexToRgb(SoldermaskColors[SOLDERMASK.toks[1].w][1]),
                                HexToRgb(SoldermaskColors[SOLDERMASK.toks[1].w][2])>>
            /\ UNCHANGED error
       ELSE /\ pc' = "failed"
            /\ error' = "KeyError"
            /\ UNCHANGED mask_colors
    /\ UNCHANGED <<STACKUP, DEFAULT_BRD_THICKNESS, file_exists, json_layers, stackup_data,
                   previous_entry, calculated_thickness, info, in_list, all_list,
                   all_layer_thickness, brdVars, selVars, lyrVars, getVars, runVars,
                   viaVars, cfgVars, SILKSCREEN, SOLDERMASK, silk_color>>

\* set_silkscreen_color(config.blendcfg["SETTINGS"]["SILKSCREEN"])
SetSilkscreenColor ==
    /\ pc = "soldermask_set"
    /\ IF SILKSCREEN.ty = "null"
       THEN \* silk_color[0] on None, line 139
            /\ pc' = "failed"
            /\ error' = "TypeError"
            /\ UNCHANGED silk_color
       ELSE IF SILKSCREEN.ty = "preset" /\ SILKSCREEN.toks[1].w \in DOMAIN SilkscreenColors
       THEN /\ pc' = "materials_done"
            /\ silk_color' = HexToRgb(SilkscreenColors[SILKSCREEN.toks[1].w])
            /\ UNCHANGED error
       ELSE \* colors_dict has no entry for a pair of hex colours
            /\ pc' = "failed"
            /\ error' = "KeyError"
            /\ UNCHANGED silk_color
    /\ UNCHANGED <<STACKUP, DEFAULT_BRD_THICKNESS, file_exists, json_layers, stackup_data,
                   previous_entry, calculated_thickness, info, in_list, all_list,
                   all_layer_thickness, brdVars, selVars, lyrVars, getVars, runVars,
                   viaVars, cfgVars, SILKSCREEN, SOLDERMASK, mask_colors>>

\* the configuration file as loaded from YAML, before the schema is applied
InitColor ==
    /\ pc = "colors"
    /\ NoStackup
    /\ NoRun
    /\ pth_gbr_exists = FALSE
    /\ statements = <<>>
    /\ new_objects = <<>>
    /\ apertures_to_remove = <<>>
    /\ entered_apertures_to_remove = FALSE
    /\ template_cfg = EmptyCfg
    /\ project_cfg = EmptyCfg
    /\ project_exists = FALSE
    /\ local_before = EmptyCfg
    /\ handled = "none"
    /\ SILKSCREEN \in ColorInputs
    /\ SOLDERMASK \in ColorInputs
    /\ mask_colors = <<>>
    /\ silk_color = <<>>

NextColor ==
    \/ ValidateColors
    \/ SetSoldermaskColor
    \/ SetSilkscreenColor

SpecColor == InitColor /\ [][NextColor]_vars

-----------------------------------------------------------------------------
(* C30: the colours the schema accepts *)

\* C30 (as claimed): every SILKSCREEN and SOLDERMASK value the configuration
\* schema accepts (a preset name, a pair of hex colours, or null) is handled
\* by set_soldermask_color and set_silkscreen_color without an error: the only
\* error of the run is the schema's rejection.
C30_AcceptedColorsAreHandled ==
    error \in {"", "ValidationError"}

====
